---- MODULE Spec2Model ----
(***************************************************************************)
(* Model of the RPTL protocol engine of rpt-webapp-client                  *)
(* (RptlProtocolService), of the command parser it uses (CommandParser),   *)
(* of the transport it is driven by in the repository's tests              *)
(* (MockedWebsocketSubject), and of the SER engine built on it             *)
(* (SerProtocolService, ServiceSubject, ServiceContext).                   *)
(*                                                                         *)
(* A text line is a sequence of symbols.  A symbol is either the           *)
(* separator SP or a lexeme (a maximal run of non-separator characters     *)
(* taken as a whole: "REGISTRATION", "42", "Alice").  The parser works on  *)
(* the sequence exactly as the code works on the characters of the string. *)
(*                                                                         *)
(* A stream (rxjs Subject) is a record [st, err]: st is "undef" (the field *)
(* holds no Subject), "open", "completed" or "errored".  The first         *)
(* terminal notification is the one the subscribers of the stream observe; *)
(* a Subject that is stopped delivers nothing more to them.                *)
(***************************************************************************)
EXTENDS Integers, Sequences, FiniteSets, TLC

\* ------------------------------------------------------------------ bounds
\* Longest roster the model lets LOGGED_IN build.
MaxActors == 3
\* Most identifiers a ServiceContext driven alone is asked for.
MaxIssued == 4
\* Most identifiers the SER engine is asked for.
MaxRequests == 3
\* Longest queue of requests a ServiceSubject is given while it cannot send.
MaxQueue == 2
MaxObservers == 2
MaxSchemes == 2

\* ------------------------------------------------------- program constants
WS_INTERNAL_ERROR == 1011
WS_NORMAL_CLOSURE == 1000

\* ------------------------------------------------------------------ values
SP == " "

\* Result of Number(x) when x is not a numeric token.  NaN differs from every
\* number, itself included (StrictNotEqual).
NaN == -1

\* new Number(word) followed by Number(...): a numeric lexeme gives its value,
\* anything else gives NaN.
NumberOf(word) ==
  IF Len(word) # 1 THEN NaN
  ELSE CASE word[1] = "0"  -> 0
         [] word[1] = "1"  -> 1
         [] word[1] = "2"  -> 2
         [] word[1] = "3"  -> 3
         [] word[1] = "4"  -> 4
         [] word[1] = "5"  -> 5
         [] word[1] = "7"  -> 7
         [] word[1] = "8"  -> 8
         [] word[1] = "42" -> 42
         [] OTHER -> NaN

\* a !== b on numbers
StrictNotEqual(a, b) == a = NaN \/ b = NaN \/ a # b

\* new ServiceRequestResponse(word) throws on a status that is neither OK nor
\* KO; Number and String never throw.
ConversionThrows(type, word) ==
  type = "ServiceRequestResponse" /\ word \notin {<<"OK">>, <<"KO">>}

\* new argument.type(word); a ServiceRequestResponse is its succeed field.
Convert(type, word) ==
  IF type = "Number" THEN NumberOf(word)
  ELSE IF type = "ServiceRequestResponse" THEN word = <<"OK">>
  ELSE word

\* new Actor(uid, name)
Actor(uid, name) == [uid |-> uid, name |-> name]

\* An optional value is a sequence of length 0 (undefined) or 1.
None == <<>>
Some(x) == <<x>>

\* ----------------------------------------------------------- CommandParser
\* The parser object: accumulated mapping and unparsed words.
CommandParser(unparsed, parsedData) == [unparsed |-> unparsed, parsedData |-> parsedData]

\* String.prototype.substr(from) with from 0-based.
SubstrFrom(s, from) == SubSeq(s, from + 1, Len(s))

\* String.prototype.substr(from, len) with from 0-based.
Substr(s, from, len) == SubSeq(s, from + 1, from + len)

\* The scanning loop of parseTo.  i, wordBegin are 0-based as in the code.
RECURSIVE ScanWords(_, _, _, _, _, _)
ScanWords(u, n, i, wordBegin, wordLength, words) ==
  IF i < Len(u) /\ Len(words) < n
  THEN IF u[i + 1] = SP
       THEN IF wordLength # 0
            THEN ScanWords(u, n, i + 1, wordBegin, 0, Append(words, Substr(u, wordBegin, wordLength)))
            ELSE ScanWords(u, n, i + 1, wordBegin, wordLength, words)
       ELSE IF wordLength = 0
            THEN ScanWords(u, n, i + 1, i, 1, words)
            ELSE ScanWords(u, n, i + 1, wordBegin, wordLength + 1, words)
  ELSE [i |-> i,
        words |-> IF wordLength # 0 THEN Append(words, Substr(u, wordBegin, wordLength)) ELSE words]

\* "Flushes string until next non-separator char is met"
RECURSIVE SkipSeparators(_, _)
SkipSeparators(u, i) ==
  IF i < Len(u) /\ u[i + 1] = SP THEN SkipSeparators(u, i + 1) ELSE i

\* Names an object literal inherits from Object.prototype.
InheritedNames == {"toString", "constructor", "__proto__"}

\* parsedData[name] !== undefined, parsedData being an object literal
IsDefinedIn(parsedData, name) == name \in DOMAIN parsedData \/ name \in InheritedNames

\* The loop that gives each scheme its word.  Returns the new mapping and the
\* error raised, if any.
RECURSIVE AssignArguments(_, _, _, _)
AssignArguments(schemes, words, k, data) ==
  IF k > Len(schemes) THEN [err |-> None, parsedData |-> data]
  ELSE IF IsDefinedIn(data, schemes[k].name)
       THEN [err |-> Some(<<"Argument name used at least twice", schemes[k].name>>), parsedData |-> data]
       ELSE IF ConversionThrows(schemes[k].type, words[k])
       THEN [err |-> Some(<<"Bad SER command: Unknown SRR status", words[k]>>), parsedData |-> data]
       ELSE AssignArguments(schemes, words, k + 1,
              data @@ (schemes[k].name :> Convert(schemes[k].type, words[k])))

\* CommandParser.parseTo(schemes): [err, parser].  err is None or the message
\* of the BadArgumentScheme thrown.
parseTo(parser, schemes) ==
  LET n == Len(schemes)
      scan == ScanWords(parser.unparsed, n, 0, 0, 0, <<>>)
  IN IF Len(scan.words) < n
     THEN [err |-> Some(<<"Not enough arguments to parse", n, Len(scan.words)>>), parser |-> parser]
     ELSE LET rest == SubstrFrom(parser.unparsed, SkipSeparators(parser.unparsed, scan.i))
              assigned == AssignArguments(schemes, scan.words, 1, parser.parsedData)
          IN [err |-> assigned.err, parser |-> CommandParser(rest, assigned.parsedData)]

Scheme(name, type) == [name |-> name, type |-> type]

\* The empty mapping {} a parser starts with.
EmptyData == [x \in {} |-> 0]

\* ------------------------------------------------------------------ streams
Undefined == [st |-> "undef", err |-> <<>>]
NewSubject == [st |-> "open", err |-> <<>>]

\* subject?.error(err): only an open Subject notifies its subscribers.
SubjectError(subject, err) ==
  IF subject.st = "open" THEN [st |-> "errored", err |-> err] ELSE subject

\* subject?.complete()
SubjectComplete(subject) ==
  IF subject.st = "open" THEN [st |-> "completed", err |-> <<>>] ELSE subject

\* ------------------------------------------------------------- RptlState
DISCONNECTED == "DISCONNECTED"
UNREGISTERED == "UNREGISTERED"
REGISTERED == "REGISTERED"

\* ---------------------------------------------------- RptlProtocolService
\* The engine together with the connection it holds is a record s:
\*   stopped          messagingInterface.isStopped
\*   closureReason    MockedWebsocketSubject.closureReason of that connection
\*   registeredMode, selfActor, actors, lastActorsValue, availability,
\*   serProtocol      the fields of RptlProtocolService
\* and what the running operation has output so far:
\*   notified         values nexted on currentState
\*   sent             lines pushed into the connection's messagesQueue
\*   actorsOut, statusOut, serOut   values nexted on actors, availability
\*                    and serProtocol (handleCommand)
\*   returned         the value the operation returned to its caller, if any

isSessionRunning(s) == ~s.stopped

\* isRegistered() when the session is running (it throws otherwise).
isRegistered(s) == s.registeredMode

\* The mode the spec speaks of.
ModeOf(s) ==
  IF ~isSessionRunning(s) THEN DISCONNECTED
  ELSE IF ~isRegistered(s) THEN UNREGISTERED
  ELSE REGISTERED

notifyState(s) == [s EXCEPT !.notified = Append(@, ModeOf(s))]

\* clearSession that completes the subjects whatever the error.
clearSession_IgnoresError(s, error) ==
  notifyState([s EXCEPT !.serProtocol = SubjectComplete(@),
                        !.actors = SubjectComplete(@),
                        !.availability = SubjectComplete(@)])

\* clearSession(error): error is the message, <<>> when absent or empty.
clearSession(s, error) ==
  IF Len(error) # 0
  THEN notifyState([s EXCEPT !.serProtocol = SubjectError(@, error),
                             !.actors = SubjectError(@, error),
                             !.availability = SubjectError(@, error)])
  ELSE notifyState([s EXCEPT !.serProtocol = SubjectComplete(@),
                             !.actors = SubjectComplete(@),
                             !.availability = SubjectComplete(@)])

\* ------------------------------------------------- MockedWebsocketSubject
\* Subject.complete() of the connection: stops it and calls the complete
\* callback the engine subscribed in beginSession, once.
SuperComplete(s) ==
  IF s.stopped THEN s ELSE clearSession([s EXCEPT !.stopped = TRUE], <<>>)

\* MockedWebsocketSubject.error(err)
MockError(s, err) == SuperComplete([s EXCEPT !.closureReason = Some(err)])

\* MockedWebsocketSubject.complete()
MockComplete(s) ==
  SuperComplete([s EXCEPT !.closureReason = Some([code |-> WS_NORMAL_CLOSURE, reason |-> <<>>])])

\* MockedWebsocketSubject.next(value)
MockNext(s, value) == IF ~s.stopped THEN [s EXCEPT !.sent = Append(@, value)] ELSE s

\* Subject.error(err) of a connection that errors by itself: stops it and
\* calls the error callback the engine subscribed in beginSession.
ConnectionError(s, message) ==
  IF s.stopped THEN s ELSE clearSession([s EXCEPT !.stopped = TRUE], message)

\* -------------------------------------------------------------- outcomes
\* A handler returns [s, exc]: the state it leaves and the exception it
\* throws (None, or Some([type, message])).
Ok(s) == [s |-> s, exc |-> None]
Throw(s, type, message) == [s |-> s, exc |-> Some([type |-> type, message |-> message])]

\* ------------------------------------------------------------- endSession
LOGOUT == <<"LOGOUT">>

\* endSession that closes the connection whatever the mode.
endSession_AlwaysCloses(s) ==
  IF ~isSessionRunning(s) THEN [s |-> s, thrown |-> "BadSessionState"]
  ELSE [s |-> clearSession(MockComplete(s), <<>>), thrown |-> "none"]

\* endSession that clears the session without closing the connection.
endSession_DoesNotClose(s) ==
  IF ~isSessionRunning(s) THEN [s |-> s, thrown |-> "BadSessionState"]
  ELSE IF isRegistered(s) THEN [s |-> MockNext(s, LOGOUT), thrown |-> "none"]
  ELSE [s |-> clearSession(s, <<>>), thrown |-> "none"]

\* endSession(): [s, thrown]
endSession(s) ==
  IF ~isSessionRunning(s) THEN [s |-> s, thrown |-> "BadSessionState"]
  ELSE IF isRegistered(s) THEN [s |-> MockNext(s, LOGOUT), thrown |-> "none"]
  ELSE [s |-> clearSession(MockComplete(s), <<>>), thrown |-> "none"]

\* ----------------------------------------------------------- ServiceContext
\* The SER engine (SerProtocolService) with its ServiceContext and its
\* ServiceSubjects lives in the same record s:
\*   uidProvider, awaitingRequests   the fields of ServiceContext
\*   services         names given to register(), in the order of the calls
\*   serviceRequestsQueue            ServiceSubject.serviceRequestsQueue, by name
\*   commandsIsSession               whether SerProtocolService.commands (and
\*                    with it the commands of every ServiceSubject) is the
\*                    Subject the RPTL engine holds in serProtocol; otherwise
\*                    it is a Subject that is stopped
\*   errors           SerProtocolService.errors
\*   hung             an operation was entered and does not return
\* and what the running operation has output so far:
\*   issuedOut        identifiers generateServiceRequestUid returned
\*   errorsOut        values nexted on errors
\*   eventsOut        [service, observer, event] nexted to the observers of a ServiceSubject
\*   serviceErrorsOut [service, observer, message] given to their error callback
\*   serCaught        exception the SER subscriber caught

\* this.awaitingRequests = {}
NoRequests == [uid \in {} |-> FALSE]

\* `${requestUid}`
NumberText(n) == IF n = NaN THEN "NaN" ELSE ToString(n)

\* generateServiceRequestUid that returns the counter after its increment.
generateServiceRequestUid_ReturnsIncremented(s) ==
  [s |-> [s EXCEPT !.uidProvider = @ + 1,
                   !.awaitingRequests = ((s.uidProvider + 1) :> FALSE) @@ @,
                   !.issuedOut = Append(@, s.uidProvider + 1)],
   uid |-> s.uidProvider + 1]

\* generateServiceRequestUid(): [s, uid]
generateServiceRequestUid(s) ==
  [s |-> [s EXCEPT !.uidProvider = @ + 1,
                   !.awaitingRequests = (s.uidProvider :> FALSE) @@ @,
                   !.issuedOut = Append(@, s.uidProvider)],
   uid |-> s.uidProvider]

\* done that marks the identifier without looking at its previous mark.
done_AcceptsResponded(s, requestUid) ==
  IF requestUid \notin DOMAIN s.awaitingRequests
  THEN Throw(s, "BadSerCommand", <<"No SR commands used UID", NumberText(requestUid)>>)
  ELSE Ok([s EXCEPT !.awaitingRequests[requestUid] = TRUE])

\* done that deletes the entry of the identifier it was given.
done_RemovesIdentifier(s, requestUid) ==
  IF requestUid \notin DOMAIN s.awaitingRequests
  THEN Throw(s, "BadSerCommand", <<"No SR commands used UID", NumberText(requestUid)>>)
  ELSE IF s.awaitingRequests[requestUid]
  THEN Throw(s, "BadSerCommand", <<"SR command already received a response", NumberText(requestUid)>>)
  ELSE Ok([s EXCEPT !.awaitingRequests =
                      [uid \in DOMAIN @ \ {requestUid} |-> @[uid]]])

\* done(requestUid): [s, exc]
done(s, requestUid) ==
  IF requestUid \notin DOMAIN s.awaitingRequests
  THEN Throw(s, "BadSerCommand", <<"No SR commands used UID", NumberText(requestUid)>>)
  ELSE IF s.awaitingRequests[requestUid]
  THEN Throw(s, "BadSerCommand", <<"SR command already received a response", NumberText(requestUid)>>)
  ELSE Ok([s EXCEPT !.awaitingRequests[requestUid] = TRUE])

\* ----------------------------------------------------------- ServiceSubject
\* commands.isStopped, for the Subject the SER engine and its ServiceSubjects
\* hold.
CommandsStopped(s) == ~(s.commandsIsSession /\ s.serProtocol.st = "open")

\* SerProtocolSubject.next(serCommand) on a Subject that is not stopped
SerProtocolSubjectNext(s, serCommand) == MockNext(s, <<"SERVICE", SP>> \o serCommand)

\* The request written without the name of its service.
RequestCommand_OmitsServiceName(uid, serviceName, request) ==
  <<"REQUEST", SP, ToString(uid), SP>> \o request

\* `REQUEST ${requestUid} ${this.serviceName} ${request}`
RequestCommand(uid, serviceName, request) ==
  <<"REQUEST", SP, ToString(uid), SP>> \o serviceName \o <<SP>> \o request

\* err of a transport whose next() throws
SendFailure == [type |-> "Error", message |-> <<"A", SP, "random", SP, "error">>]

\* A ServiceSubject just constructed: no observer, not stopped.
NoObservers == [name \in {} |-> <<>>]
NoneStopped == [name \in {} |-> FALSE]

\* array.splice(i, 1), indexes counted from 1
RemoveAt(array, i) == SubSeq(array, 1, i - 1) \o SubSeq(array, i + 1, Len(array))

\* subject.subscribe(observer) on the ServiceSubject of serviceName (Subject of
\* RxJS, which ServiceSubject extends): the observer joins the observers of a
\* Subject that is not stopped.
subscribe(s, serviceName, observer) ==
  IF s.isStopped[serviceName] THEN s
  ELSE [s EXCEPT !.observers[serviceName] = Append(@, observer)]

\* subscriber.error(err) for the subscriber at index i of this.observers
\* (Subscriber of RxJS): the error callback of the observer is called, then
\* the subscriber unsubscribes, which removes it from the observers of the
\* Subject it subscribed to.
SubscriberError(s, serviceName, i, err) ==
  [s EXCEPT !.serviceErrorsOut =
              Append(@, [service |-> serviceName, observer |-> s.observers[serviceName][i],
                         message |-> err.message]),
            !.observers[serviceName] = RemoveAt(@, i)]

\* for (const subscriber of this.observers) subscriber.error(err), from index
\* i on: the array iterator reads the array as it is at each step.
RECURSIVE ErrorObservers(_, _, _, _)
ErrorObservers(s, serviceName, i, err) ==
  IF i > Len(s.observers[serviceName]) THEN s
  ELSE ErrorObservers(SubscriberError(s, serviceName, i, err), serviceName, i + 1, err)

\* ServiceSubject.error(err): isStopped is left as it is.
ServiceSubjectError(s, serviceName, err) == ErrorObservers(s, serviceName, 1, err)

\* ServiceSubject.complete(): [s, thrown]
ServiceSubjectComplete(s, serviceName) == [s |-> s, thrown |-> "Error"]

\* ServiceSubject.fire(event): super.next(event), which nexts the event to a
\* copy of the observers of a Subject that is not stopped.
fire(s, serviceName, event) ==
  IF s.isStopped[serviceName] THEN s
  ELSE [s EXCEPT !.eventsOut =
                   @ \o [i \in 1..Len(s.observers[serviceName]) |->
                           [service |-> serviceName, observer |-> s.observers[serviceName][i],
                            event |-> event]]]

\* ServiceSubject.next(request) of the service serviceName; sendThrows tells
\* whether commands.next() throws.  The done() of the catch block is given the
\* identifier just issued: it does not throw.
ServiceSubjectNext(s, serviceName, request, sendThrows) ==
  IF CommandsStopped(s)
  THEN [s EXCEPT !.serviceRequestsQueue[serviceName] = Append(@, request)]
  ELSE LET issued == generateServiceRequestUid(s)
       IN IF sendThrows
          THEN ServiceSubjectError(done(issued.s, issued.uid).s, serviceName, SendFailure)
          ELSE SerProtocolSubjectNext(issued.s, RequestCommand(issued.uid, serviceName, request))

\* for (const queuedRequest of this.serviceRequestsQueue) this.next(queuedRequest)
\* on commands that are not stopped.
RECURSIVE FlushQueue(_, _, _, _)
FlushQueue(s, serviceName, queue, sendThrows) ==
  IF queue = <<>> THEN s
  ELSE FlushQueue(ServiceSubjectNext(s, serviceName, Head(queue), sendThrows),
                  serviceName, Tail(queue), sendThrows)

\* boundWith that sends the queued requests and keeps them queued.
boundWith_KeepsQueue(s, serviceName, sendThrows) ==
  LET queue == s.serviceRequestsQueue[serviceName]
  IN IF queue # <<>> /\ CommandsStopped(s)
     THEN [s EXCEPT !.hung = TRUE]
     ELSE FlushQueue(s, serviceName, queue, sendThrows)

\* ServiceSubject.boundWith(commands), commands being the Subject s describes.
\* On stopped commands each next() of the loop pushes the request at the end
\* of the array the loop iterates: with a request queued the loop has no end.
boundWith(s, serviceName, sendThrows) ==
  LET queue == s.serviceRequestsQueue[serviceName]
  IN IF queue # <<>> /\ CommandsStopped(s)
     THEN [s EXCEPT !.hung = TRUE]
     ELSE [FlushQueue(s, serviceName, queue, sendThrows)
             EXCEPT !.serviceRequestsQueue[serviceName] = <<>>]

\* ------------------------------------------------------ SerProtocolService
\* isBound()
isBound(s) == ~CommandsStopped(s)

\* this.services[name] on an object literal: the ServiceSubject registered
\* under the name, or what Object.prototype gives for it.
ServiceLookup(s, name) ==
  IF \E i \in 1..Len(s.services) : s.services[i] = name THEN "ServiceSubject"
  ELSE IF name = <<"toString">> THEN "Object.prototype.toString"
  ELSE IF name = <<"__proto__">> THEN "Object.prototype"
  ELSE "undefined"

\* No ServiceSubject, no queue.
NoQueues == [name \in {} |-> <<>>]

\* register(serviceName): [s, thrown]
registerService(s, serviceName) ==
  IF ServiceLookup(s, serviceName) # "undefined"
  THEN [s |-> s, thrown |-> "UnavailableServiceName"]
  ELSE [s |-> [s EXCEPT !.services = Append(@, serviceName),
                        !.serviceRequestsQueue = (serviceName :> <<>>) @@ @,
                        !.observers = (serviceName :> <<>>) @@ @,
                        !.isStopped = (serviceName :> FALSE) @@ @],
        thrown |-> "none"]

\* The for...in loop of bind(): own keys in the order of their creation.
RECURSIVE BindServices(_, _, _)
BindServices(s, names, sendThrows) ==
  IF names = <<>> \/ s.hung THEN s
  ELSE BindServices(boundWith(s, Head(names), sendThrows), Tail(names), sendThrows)

\* bind() whose loop visits the services from the last registered to the first.
bind_LastRegisteredFirst(s, sendThrows) ==
  IF isBound(s) THEN [s |-> s, thrown |-> "BadSerState"]
  ELSE [s |-> BindServices([s EXCEPT !.commandsIsSession = isSessionRunning(s) /\ isRegistered(s)],
                           [i \in 1..Len(s.services) |-> s.services[Len(s.services) - i + 1]],
                           sendThrows),
        thrown |-> "none"]

\* bind(): [s, thrown].  getSerProtocol() gives the serProtocol of the RPTL
\* engine when it is registered, and a Subject that is errored otherwise.  The
\* subscription made on commands lasts as long as commands is not stopped.
bind(s, sendThrows) ==
  IF isBound(s) THEN [s |-> s, thrown |-> "BadSerState"]
  ELSE [s |-> BindServices([s EXCEPT !.commandsIsSession = isSessionRunning(s) /\ isRegistered(s)],
                           s.services, sendThrows),
        thrown |-> "none"]

\* A value made by `new argument.type(word)` is an object (a String, a Number,
\* a ServiceRequestResponse).
IsPrimitive(constructed) == FALSE

\* case label: of a switch, which compares with ===.  An object is strictly
\* equal to no primitive string.
CaseMatches(constructed, label) == IsPrimitive(constructed) /\ constructed = label

\* case 'EVENT', after the service was parsed: [s, exc]
HandleServiceEvent(s, parsedServiceEvent) ==
  IF parsedServiceEvent.err # None
  THEN Throw(s, "BadArgumentScheme", parsedServiceEvent.err[1])
  ELSE IF ServiceLookup(s, parsedServiceEvent.parser.parsedData["service"]) = "undefined"
  THEN Throw(s, "BadSerCommand", <<"Service does not exist", parsedServiceEvent.parser.parsedData["service"]>>)
  ELSE IF ServiceLookup(s, parsedServiceEvent.parser.parsedData["service"]) = "ServiceSubject"
  THEN Ok(fire(s, parsedServiceEvent.parser.parsedData["service"], parsedServiceEvent.parser.unparsed))
  ELSE Throw(s, "TypeError", <<"serviceEventsSubject.fire is not a function">>)

\* case 'RESPONSE', after context.done(requestUid) was called: [s, exc]
PublishResponse(marked, parsedRequestResponse) ==
  IF marked.exc # None THEN marked
  ELSE IF ~parsedRequestResponse.parser.parsedData["response"]
  THEN Ok([marked.s EXCEPT !.errorsOut = Append(@, parsedRequestResponse.parser.unparsed)])
  ELSE Ok(marked.s)

\* case 'RESPONSE', after the identifier and the status were parsed: [s, exc]
HandleRequestResponse(s, parsedRequestResponse) ==
  IF parsedRequestResponse.err # None
  THEN Throw(s, "BadArgumentScheme", parsedRequestResponse.err[1])
  ELSE PublishResponse(done(s, parsedRequestResponse.parser.parsedData["requestUid"]),
                       parsedRequestResponse)

\* The switch of handleCommand without its default: an unknown type is left
\* unanswered.
HandleParsedCommand_AcceptsUnknownType(s, parsedSerCommand) ==
  IF parsedSerCommand.err # None
  THEN Throw(s, "BadArgumentScheme", parsedSerCommand.err[1])
  ELSE Ok(s)

\* The switch of handleCommand, after the command type was parsed: [s, exc]
HandleParsedCommand(s, parsedSerCommand) ==
  IF parsedSerCommand.err # None
  THEN Throw(s, "BadArgumentScheme", parsedSerCommand.err[1])
  ELSE IF CaseMatches(parsedSerCommand.parser.parsedData["serCommandType"], <<"EVENT">>)
  THEN HandleServiceEvent(s, parseTo(parsedSerCommand.parser, <<Scheme("service", "String")>>))
  ELSE IF CaseMatches(parsedSerCommand.parser.parsedData["serCommandType"], <<"RESPONSE">>)
  THEN HandleRequestResponse(s,
         parseTo(parsedSerCommand.parser,
                 <<Scheme("requestUid", "Number"), Scheme("response", "ServiceRequestResponse")>>))
  ELSE Throw(s, "BadSerCommand",
             <<"Unknown command type", parsedSerCommand.parser.parsedData["serCommandType"]>>)

\* SerProtocolService.handleCommand(serCommand): [s, exc]
handleCommand(s, serCommand) ==
  HandleParsedCommand(s, parseTo(CommandParser(serCommand, EmptyData),
                                 <<Scheme("serCommandType", "String")>>))

\* What endSession() called from the catch block leaves: [s, exc].  An
\* exception of endSession() leaves the callback.
AfterEndSession(ended, caught) ==
  [s |-> [ended.s EXCEPT !.serCaught = caught],
   exc |-> IF ended.thrown = "none" THEN None
           ELSE Some([type |-> ended.thrown, message |-> <<"endSession">>])]

\* The callback when the catch block does nothing.
CatchSerError_IgnoresError(handled) ==
  IF handled.exc = None THEN Ok(handled.s)
  ELSE Ok([handled.s EXCEPT !.serCaught = handled.exc])

\* The callback without its try block: what handleCommand throws leaves it.
CatchSerError_Rethrows(handled) == handled

\* The try/catch of the next callback bind() subscribes on commands: what
\* handleCommand throws is answered by endSession() of the RPTL engine.
CatchSerError(handled) ==
  IF handled.exc = None THEN Ok(handled.s)
  ELSE AfterEndSession(endSession(handled.s), handled.exc)

\* The next callback bind() subscribes on commands: [s, exc]
SerOnCommand(s, serCommand) == CatchSerError(handleCommand(s, serCommand))

\* ---------------------------------------------------------------- handlers
handleInterruptCommand(s, parsedCommand) ==
  IF Len(parsedCommand.unparsed) = 0
  THEN Ok(clearSession(s, <<>>))
  ELSE Ok(clearSession(s, parsedCommand.unparsed))

\* serProtocol.handleCommand(unparsed): the observers of serProtocol, and
\* among them the SER engine when it is bound to this Subject.
handleServiceCommand(s, parsedCommand) ==
  IF s.serProtocol.st = "open"
  THEN LET s1 == [s EXCEPT !.serOut = Append(@, parsedCommand.unparsed)]
       IN IF isBound(s1) THEN SerOnCommand(s1, parsedCommand.unparsed) ELSE Ok(s1)
  ELSE Ok(s)

\* actors?.next(lastActorsValue)
NextActors(s) ==
  IF s.actors.st = "open" THEN [s EXCEPT !.actorsOut = Append(@, s.lastActorsValue)] ELSE s

handleLoggedInCommand(s, parsedCommand) ==
  LET parsed == parseTo(parsedCommand, <<Scheme("uid", "Number"), Scheme("name", "String")>>)
  IN IF parsed.err # None THEN Throw(s, "BadServerMessage", parsed.err[1])
     ELSE LET newActor == Actor(parsed.parser.parsedData["uid"], parsed.parser.parsedData["name"])
          IN IF s.selfActor = None \/ StrictNotEqual(newActor.uid, s.selfActor[1].uid)
             THEN Ok(NextActors([s EXCEPT !.lastActorsValue = Append(@, newActor)]))
             ELSE Ok(s)

handleLoggedOutCommand(s, parsedCommand) ==
  LET parsed == parseTo(parsedCommand, <<Scheme("uid", "Number")>>)
  IN IF parsed.err # None THEN Throw(s, "BadServerMessage", parsed.err[1])
     ELSE LET uid == parsed.parser.parsedData["uid"]
              keep(actor) == StrictNotEqual(actor.uid, uid)
          IN Ok(NextActors([s EXCEPT !.lastActorsValue = SelectSeq(@, keep)]))

handleAvailabilityCommand(s, parsedCommand) ==
  LET parsed == parseTo(parsedCommand,
                        <<Scheme("actorsCount", "Number"), Scheme("maxActorsNumber", "Number")>>)
  IN IF parsed.err # None THEN Throw(s, "BadServerMessage", parsed.err[1])
     ELSE IF s.availability.st = "open"
          THEN Ok([s EXCEPT !.statusOut = Append(@,
                     [currentActors |-> parsed.parser.parsedData["actorsCount"],
                      actorsLimit |-> parsed.parser.parsedData["maxActorsNumber"]])])
          ELSE Ok(s)

\* The while loop of handleRegistrationCommand: [actors, err].
RECURSIVE ParseActors(_, _, _)
ParseActors(currentParsedActor, currentArgumentsSuffix, actorsList) ==
  IF Len(currentParsedActor.unparsed) = 0 THEN [actors |-> actorsList, err |-> None]
  ELSE LET currentUidArgument == "uid" \o ToString(currentArgumentsSuffix)
           currentNameArgument == "name" \o ToString(currentArgumentsSuffix)
           parsed == parseTo(currentParsedActor,
                             <<Scheme(currentUidArgument, "Number"), Scheme(currentNameArgument, "String")>>)
       IN IF parsed.err # None THEN [actors |-> actorsList, err |-> parsed.err]
          ELSE ParseActors(parsed.parser, currentArgumentsSuffix + 1,
                 Append(actorsList, Actor(parsed.parser.parsedData[currentUidArgument],
                                          parsed.parser.parsedData[currentNameArgument])))

\* handleRegistrationCommand that does not reset lastActorsValue.
handleRegistrationCommand_KeepsActors(s, parsedCommand) ==
  LET parsedActors == ParseActors(parsedCommand, 0, s.lastActorsValue)
      s1 == [s EXCEPT !.lastActorsValue = parsedActors.actors]
  IN IF parsedActors.err # None THEN Throw(s1, "BadServerMessage", parsedActors.err[1])
     ELSE Ok(notifyState([s1 EXCEPT !.serProtocol = NewSubject,
                                    !.commandsIsSession = FALSE,
                                    !.actors = NewSubject,
                                    !.availability = SubjectComplete(@),
                                    !.registeredMode = TRUE]))

handleRegistrationCommand(s, parsedCommand) ==
  LET parsedActors == ParseActors(parsedCommand, 0, <<>>)
      s1 == [s EXCEPT !.lastActorsValue = parsedActors.actors]
  IN IF parsedActors.err # None THEN Throw(s1, "BadServerMessage", parsedActors.err[1])
     ELSE Ok(notifyState([s1 EXCEPT !.serProtocol = NewSubject,
                                    !.commandsIsSession = FALSE,
                                    !.actors = NewSubject,
                                    !.availability = SubjectComplete(@),
                                    !.registeredMode = TRUE]))

\* The keys of the two handler registries.
registeredCommandHandlers == {"INTERRUPT", "SERVICE", "LOGGED_IN", "LOGGED_OUT"}
unregisteredCommandHandlers == {"AVAILABILITY", "REGISTRATION"}

\* handlers[name] on an object literal: an own key gives its handler; a name
\* the literal does not define is looked up in Object.prototype, which gives
\* a function for "toString", a non-callable object for "__proto__" and
\* undefined for the names Object.prototype does not define either.
HandlerLookup(handlers, name) ==
  IF Len(name) = 1 /\ name[1] \in handlers THEN name[1]
  ELSE IF name = <<"toString">> THEN "Object.prototype.toString"
  ELSE IF name = <<"__proto__">> THEN "Object.prototype"
  ELSE "undefined"

\* invokedCommandHandler(parsedCommand)
InvokeHandler(s, handler, parsedCommand) ==
  CASE handler = "INTERRUPT" -> handleInterruptCommand(s, parsedCommand)
    [] handler = "SERVICE" -> handleServiceCommand(s, parsedCommand)
    [] handler = "LOGGED_IN" -> handleLoggedInCommand(s, parsedCommand)
    [] handler = "LOGGED_OUT" -> handleLoggedOutCommand(s, parsedCommand)
    [] handler = "AVAILABILITY" -> handleAvailabilityCommand(s, parsedCommand)
    [] handler = "REGISTRATION" -> handleRegistrationCommand(s, parsedCommand)
    [] handler = "Object.prototype.toString" -> Ok(s)
    [] OTHER -> Throw(s, "TypeError", <<"invokedCommandHandler is not a function">>)

handleMessage(s, rptlMessage) ==
  LET parsed == parseTo(CommandParser(rptlMessage, EmptyData), <<Scheme("rptlCommand", "String")>>)
  IN IF parsed.err # None THEN Throw(s, "BadServerMessage", parsed.err[1])
     ELSE LET invokedCommandName == parsed.parser.parsedData["rptlCommand"]
              invokedCommandHandler ==
                IF s.registeredMode
                THEN HandlerLookup(registeredCommandHandlers, invokedCommandName)
                ELSE HandlerLookup(unregisteredCommandHandlers, invokedCommandName)
          IN IF invokedCommandHandler = "undefined"
             THEN Throw(s, "BadServerMessage", <<"Unavailable command", invokedCommandName>>)
             ELSE InvokeHandler(s, invokedCommandHandler, parsed.parser)

\* The next callback when the catch block clears the session without closing
\* the connection.
OnMessage_DoesNotClose(s, rptlMessage) ==
  LET handled == handleMessage(s, rptlMessage)
  IN IF handled.exc = None THEN [s |-> handled.s, caught |-> None, escaped |-> None]
     ELSE [s |-> clearSession(handled.s, handled.exc[1].message),
           caught |-> handled.exc, escaped |-> None]

\* The next callback subscribed in beginSession: [s, exc] where exc is the
\* exception that was caught, and None is what leaves the callback.
OnMessage(s, rptlMessage) ==
  LET handled == handleMessage(s, rptlMessage)
  IN IF handled.exc = None THEN [s |-> handled.s, caught |-> None, escaped |-> None]
     ELSE [s |-> MockError(handled.s, [code |-> WS_INTERNAL_ERROR, reason |-> handled.exc[1].message]),
           caught |-> handled.exc, escaped |-> None]

\* ------------------------------------------------------------------- state
VARIABLES
  stopped,          \* messagingInterface.isStopped
  closureReason,    \* closureReason of the connection held (None or Some([code, reason]))
  registeredMode,   \* RptlProtocolService.registeredMode
  selfActor,        \* RptlProtocolService.selfActor (None or Some(actor))
  actors,           \* RptlProtocolService.actors
  lastActorsValue,  \* RptlProtocolService.lastActorsValue
  availability,     \* RptlProtocolService.availability
  serProtocol,      \* RptlProtocolService.serProtocol
  notified,         \* values nexted on currentState by the last operation
  sent,             \* lines the last operation pushed into the connection
  actorsOut,        \* rosters the last operation nexted on actors
  statusOut,        \* values the last operation nexted on availability
  serOut,           \* SER commands the last operation handed to serProtocol
  returned,         \* value the last operation returned (None or Some(value))
  uidProvider,      \* ServiceContext.uidProvider
  awaitingRequests, \* ServiceContext.awaitingRequests
  services,         \* names registered in SerProtocolService.services, in order
  serviceRequestsQueue, \* serviceRequestsQueue of each ServiceSubject
  observers,        \* observers of each ServiceSubject, in the order of their subscription
  isStopped,        \* isStopped of each ServiceSubject
  thisParser,       \* the CommandParser parseTo is called on
  newParser,        \* outcome of the last parseTo call: [err, parser]
  commandsIsSession,    \* SerProtocolService.commands is the current serProtocol
  errors,           \* SerProtocolService.errors
  hung,             \* an operation was entered and does not return
  issuedOut,        \* identifiers the last operation was issued
  errorsOut,        \* values the last operation nexted on errors
  eventsOut,        \* events the last operation fired on ServiceSubjects
  serviceErrorsOut, \* errors the last operation gave to observers of ServiceSubjects
  serCaught,        \* exception the SER subscriber caught in the last operation
  issueCalls,       \* number of generateServiceRequestUid() calls made so far
  queuedOrder,      \* the requests that are queued, in the order next() was given them
  issuedBefore,     \* number of generateServiceRequestUid() calls made before the Registered session began
  sessionSelf,      \* the identity the last register() of the current session was given
  lastOp            \* the last operation: name, argument, mode before it, outcome

vars == <<stopped, closureReason, registeredMode, selfActor, actors, lastActorsValue,
          availability, serProtocol, notified, sent, actorsOut, statusOut, serOut, returned,
          uidProvider, awaitingRequests, services, serviceRequestsQueue, observers, isStopped,
          thisParser, newParser, commandsIsSession, errors, hung, issuedOut, errorsOut, eventsOut, serviceErrorsOut, serCaught,
          issueCalls, queuedOrder, issuedBefore, sessionSelf, lastOp>>

\* The state as the record the operators work on, outputs emptied: the state
\* an operation starts from.
Cur ==
  [stopped |-> stopped, closureReason |-> closureReason, registeredMode |-> registeredMode,
   selfActor |-> selfActor, actors |-> actors, lastActorsValue |-> lastActorsValue,
   availability |-> availability, serProtocol |-> serProtocol,
   notified |-> <<>>, sent |-> <<>>, actorsOut |-> <<>>, statusOut |-> <<>>, serOut |-> <<>>,
   returned |-> None,
   uidProvider |-> uidProvider, awaitingRequests |-> awaitingRequests, services |-> services,
   serviceRequestsQueue |-> serviceRequestsQueue, observers |-> observers,
   isStopped |-> isStopped, thisParser |-> thisParser, newParser |-> newParser,
   commandsIsSession |-> commandsIsSession,
   errors |-> errors, hung |-> hung,
   issuedOut |-> <<>>, errorsOut |-> <<>>, eventsOut |-> <<>>, serviceErrorsOut |-> <<>>,
   serCaught |-> None]

\* The requests queued in s, in the order next() was given them: a call of
\* next() on stopped commands pushes one request to one queue, and a flush
\* empties every queue it visits.
QueuedOrderAfter(s) ==
  LET longer == {name \in DOMAIN s.serviceRequestsQueue :
                   /\ name \in DOMAIN serviceRequestsQueue
                   /\ Len(s.serviceRequestsQueue[name]) > Len(serviceRequestsQueue[name])}
      kept == SelectSeq(queuedOrder,
                        LAMBDA q : /\ q.service \in DOMAIN s.serviceRequestsQueue
                                   /\ s.serviceRequestsQueue[q.service] # <<>>)
  IN IF s.hung \/ longer = {} THEN kept
     ELSE LET name == CHOOSE name \in longer : TRUE
          IN Append(kept, [service |-> name,
                           request |-> s.serviceRequestsQueue[name][Len(s.serviceRequestsQueue[name])]])

\* The identifiers issued before the session of s became Registered, 0 while
\* s is not Registered: the handler of REGISTRATION sets registeredMode, and
\* every identifier the context issued until then belongs to an earlier
\* session.
IssuedBeforeAfter(s) ==
  IF ModeOf(s) # REGISTERED THEN 0
  ELSE IF ~registeredMode THEN issueCalls
  ELSE issuedBefore

\* The identity the last register() of the session of s was given, None when
\* the session saw no register() and when no session runs: register is the
\* one operation that sends a LOGIN line, made of the uid and the name it was
\* given.
SessionSelfAfter(s) ==
  IF s.stopped \/ stopped THEN None
  ELSE IF s.sent # <<>> /\ Head(s.sent[1]) = "LOGIN"
  THEN Some(Actor(NumberOf(<<s.sent[1][3]>>), SubSeq(s.sent[1], 5, Len(s.sent[1]))))
  ELSE sessionSelf

\* The state an operation leaves.
Becomes(s) ==
  /\ stopped' = s.stopped
  /\ closureReason' = s.closureReason
  /\ registeredMode' = s.registeredMode
  /\ selfActor' = s.selfActor
  /\ actors' = s.actors
  /\ lastActorsValue' = s.lastActorsValue
  /\ availability' = s.availability
  /\ serProtocol' = s.serProtocol
  /\ notified' = s.notified
  /\ sent' = s.sent
  /\ actorsOut' = s.actorsOut
  /\ statusOut' = s.statusOut
  /\ serOut' = s.serOut
  /\ returned' = s.returned
  /\ uidProvider' = s.uidProvider
  /\ awaitingRequests' = s.awaitingRequests
  /\ services' = s.services
  /\ serviceRequestsQueue' = s.serviceRequestsQueue
  /\ observers' = s.observers
  /\ isStopped' = s.isStopped
  /\ thisParser' = s.thisParser
  /\ newParser' = s.newParser
  /\ commandsIsSession' = s.commandsIsSession
  /\ errors' = s.errors
  /\ hung' = s.hung
  /\ issuedOut' = s.issuedOut
  /\ errorsOut' = s.errorsOut
  /\ eventsOut' = s.eventsOut
  /\ serviceErrorsOut' = s.serviceErrorsOut
  /\ serCaught' = s.serCaught
  /\ issueCalls' = issueCalls + Len(s.issuedOut)
  /\ queuedOrder' = QueuedOrderAfter(s)
  /\ issuedBefore' = IssuedBeforeAfter(s)
  /\ sessionSelf' = SessionSelfAfter(s)

Mode == ModeOf(Cur)

\* lastOp: arg is what the call was given, written as a sequence of lexemes
\* (a line, an error message, an identity, the connection's condition); thrown
\* is the exception the call threw to its caller ("none" when it returned),
\* caught the exception caught while handling an inbound line.
Op(name, arg, thrown, caught) ==
  [op |-> name, arg |-> arg, modeBefore |-> Mode, thrown |-> thrown, caught |-> caught]

\* ------------------------------------------------------------- inputs
\* A name is a word: the sequence of its lexemes.
LoginLine(uid, name) == <<"LOGIN", SP, ToString(uid), SP>> \o name

\* Identities register() is called with.
Identities == {Actor(42, <<"Alice">>), Actor(7, <<"Bob">>)}

LEmpty == <<>>
LBlank == <<SP, SP>>
LAvailability == <<"AVAILABILITY", SP, "2", SP, "5">>
LAvailabilityShort == <<"AVAILABILITY", SP, "2">>
LRegistrationNone == <<"REGISTRATION">>
LRegistrationOne == <<"REGISTRATION", SP, "42", SP, "Alice">>
LRegistrationTwo == <<SP, SP, "REGISTRATION", SP, SP, "42", SP, "Alice", SP, SP, SP, "7", SP, SP, "Bob", SP, SP>>
LRegistrationOdd == <<"REGISTRATION", SP, "42", SP, "Alice", SP, "7">>
LRegistrationTwice == <<"REGISTRATION", SP, "7", SP, "Bob", SP, "7", SP, "Bob">>
LInterrupt == <<"INTERRUPT">>
LInterruptError == <<"INTERRUPT", SP, SP, SP, "An", SP, SP, "error">>
LService == <<"SERVICE", SP, "any", SP, SP, "command">>
LLoggedInSelf == <<"LOGGED_IN", SP, "42", SP, "Alice">>
LLoggedInCarol == <<SP, SP, "LOGGED_IN", SP, SP, SP, "8", SP, "Carol">>
LLoggedInShort == <<"LOGGED_IN", SP, "8">>
LLoggedOut == <<"LOGGED_OUT", SP, "7">>
LLoggedOutShort == <<"LOGGED_OUT">>
LCheckout == <<"CHECKOUT">>
LToString == <<"toString">>
LProto == <<"__proto__", SP, "x">>

\* Lines the server sends.
ServerLines ==
  {LEmpty, LBlank, LAvailability, LAvailabilityShort, LRegistrationNone, LRegistrationOne,
   LRegistrationTwo, LRegistrationOdd, LRegistrationTwice, LInterrupt, LInterruptError,
   LService, LLoggedInSelf, LLoggedInCarol, LLoggedInShort, LLoggedOut, LLoggedOutShort,
   LCheckout, LToString, LProto}

\* Names register() of the SER engine is called with.
ServiceNames == {<<"Chat">>, <<"Lobby">>, <<"toString">>}

\* Requests given to next() of a ServiceSubject.
Requests == {<<"hi">>, <<"a", SP, SP, "b">>}
Observers == 1..MaxObservers

\* Strings given to a CommandParser, and the schemes parseTo is called with.
ParserInputs ==
  {<<>>, <<SP, SP>>, <<"a">>, <<SP, "a", SP, SP, "b">>, <<"a", "b", SP, "c", SP>>,
   <<"a", SP, "b", SP, SP, "c", SP, SP, "d", SP>>}
SchemeNames == {"x", "y", "z", "toString"}
SchemeLists ==
  UNION {[1..n -> {Scheme(name, "String") : name \in SchemeNames}] : n \in 0..MaxSchemes}

\* Identifiers done() is called with: issued or not, and NaN.
ContextUids == (0..MaxIssued) \cup {NaN}

LResponseOk == <<"SERVICE", SP, "RESPONSE", SP, "0", SP, "OK">>
LResponseKo == <<"SERVICE", SP, "RESPONSE", SP, "0", SP, "KO", SP, SP, "a", SP, "random", SP, SP, "error">>
LResponseUnknown == <<"SERVICE", SP, "RESPONSE", SP, "5", SP, "OK">>
LResponseMaybe == <<"SERVICE", SP, "RESPONSE", SP, "0", SP, "MAYBE">>
LResponseShort == <<"SERVICE", SP, "RESPONSE", SP, "0">>
LEventChat == <<"SERVICE", SP, "EVENT", SP, "Chat", SP, SP, "hello", SP, SP, "world">>
LEventUnknown == <<"SERVICE", SP, "EVENT", SP, "Unknown", SP, "x">>
LEventShort == <<"SERVICE", SP, "EVENT">>
LServicePing == <<"SERVICE", SP, "PING">>
LServiceEmpty == <<"SERVICE">>

\* Lines the server sends to a client that uses the SER engine.
SerServerLines ==
  {LRegistrationOne, LInterrupt, LResponseOk, LResponseKo, LResponseUnknown, LResponseMaybe,
   LResponseShort, LEventChat, LEventUnknown, LEventShort, LServicePing, LServiceEmpty}

\* err.message of a connection error: absent, or a message.
ConnectionErrorMessages == {<<>>, <<"Connection", SP, "lost">>}

\* ------------------------------------------------------------------ Init
\* The state the constructors leave.  RptlProtocolService: a completed
\* placeholder connection, unregistered, no actors, availability nor SER
\* subject.  SerProtocolService: no service, a context that issued nothing,
\* commands completed, errors open.
Init ==
  /\ stopped = TRUE
  /\ closureReason = None
  /\ registeredMode = FALSE
  /\ selfActor = None
  /\ actors = Undefined
  /\ lastActorsValue = <<>>
  /\ availability = Undefined
  /\ serProtocol = Undefined
  /\ notified = <<>>
  /\ sent = <<>>
  /\ actorsOut = <<>>
  /\ statusOut = <<>>
  /\ serOut = <<>>
  /\ returned = None
  /\ uidProvider = 0
  /\ awaitingRequests = NoRequests
  /\ services = <<>>
  /\ serviceRequestsQueue = NoQueues
  /\ observers = NoObservers
  /\ isStopped = NoneStopped
  /\ thisParser = CommandParser(<<>>, EmptyData)
  /\ newParser = [err |-> None, parser |-> CommandParser(<<>>, EmptyData)]
  /\ commandsIsSession = FALSE
  /\ errors = NewSubject
  /\ hung = FALSE
  /\ issuedOut = <<>>
  /\ errorsOut = <<>>
  /\ eventsOut = <<>>
  /\ serviceErrorsOut = <<>>
  /\ serCaught = None
  /\ issueCalls = 0
  /\ queuedOrder = <<>>
  /\ issuedBefore = 0
  /\ sessionSelf = None
  /\ lastOp = [op |-> "constructor", arg |-> <<>>, modeBefore |-> DISCONNECTED,
               thrown |-> "none", caught |-> None]

\* --------------------------------------------------------------- operations
\* beginSession that keeps the registered flag of the previous session.
beginSession_KeepsRegisteredMode(s, connectionStopped) ==
  IF isSessionRunning(s) THEN [s |-> s, thrown |-> "BadSessionState"]
  ELSE IF connectionStopped THEN [s |-> s, thrown |-> "BadConnectionSubject"]
  ELSE [s |-> notifyState([s EXCEPT !.actors = Undefined,
                                    !.availability = NewSubject,
                                    !.stopped = FALSE,
                                    !.closureReason = None]),
        thrown |-> "none"]

\* beginSession that does not look at the state of the connection it is given:
\* a stopped connection is bound and the session is stopped at once.
beginSession_AcceptsStoppedConnection(s, connectionStopped) ==
  IF isSessionRunning(s) THEN [s |-> s, thrown |-> "BadSessionState"]
  ELSE [s |-> notifyState([s EXCEPT !.registeredMode = FALSE,
                                    !.actors = Undefined,
                                    !.availability = NewSubject,
                                    !.stopped = connectionStopped,
                                    !.closureReason = None]),
        thrown |-> "none"]

\* beginSession that keeps the Availability subject of the previous session.
beginSession_KeepsAvailability(s, connectionStopped) ==
  IF isSessionRunning(s) THEN [s |-> s, thrown |-> "BadSessionState"]
  ELSE IF connectionStopped THEN [s |-> s, thrown |-> "BadConnectionSubject"]
  ELSE [s |-> notifyState([s EXCEPT !.registeredMode = FALSE,
                                    !.actors = Undefined,
                                    !.stopped = FALSE,
                                    !.closureReason = None]),
        thrown |-> "none"]

\* beginSession(connection) on a new connection; connectionStopped tells
\* whether the connection given is already completed or errored.  [s, thrown]
beginSession(s, connectionStopped) ==
  IF isSessionRunning(s) THEN [s |-> s, thrown |-> "BadSessionState"]
  ELSE IF connectionStopped THEN [s |-> s, thrown |-> "BadConnectionSubject"]
  ELSE [s |-> notifyState([s EXCEPT !.registeredMode = FALSE,
                                    !.actors = Undefined,
                                    !.availability = NewSubject,
                                    !.stopped = FALSE,
                                    !.closureReason = None]),
        thrown |-> "none"]

\* register that sends the login line without recording the identity.
register_ForgetsIdentity(s, uid, name) ==
  IF ~isSessionRunning(s) THEN [s |-> s, thrown |-> "BadSessionState"]
  ELSE IF isRegistered(s) THEN [s |-> s, thrown |-> "BadRptlMode"]
  ELSE [s |-> MockNext(s, LoginLine(uid, name)), thrown |-> "none"]

\* register(uid, name): [s, thrown]
register(s, uid, name) ==
  IF ~isSessionRunning(s) THEN [s |-> s, thrown |-> "BadSessionState"]
  ELSE IF isRegistered(s) THEN [s |-> s, thrown |-> "BadRptlMode"]
  ELSE [s |-> MockNext([s EXCEPT !.selfActor = Some(Actor(uid, name))], LoginLine(uid, name)),
        thrown |-> "none"]

\* updateActorsSubscribable(): [s, thrown]
updateActorsSubscribable(s) ==
  IF ~isSessionRunning(s) THEN [s |-> s, thrown |-> "BadSessionState"]
  ELSE IF ~isRegistered(s) THEN [s |-> s, thrown |-> "BadRptlMode"]
  ELSE [s |-> NextActors(s), thrown |-> "none"]

CHECKOUT == <<"CHECKOUT">>

\* updateStatusFromServer(): [s, thrown]
updateStatusFromServer(s) ==
  IF ~isSessionRunning(s) THEN [s |-> s, thrown |-> "BadSessionState"]
  ELSE IF isRegistered(s) THEN [s |-> s, thrown |-> "BadRptlMode"]
  ELSE [s |-> MockNext(s, CHECKOUT), thrown |-> "none"]

\* getSelf that reads registeredMode without asking whether a session runs.
getSelf_SkipsSessionCheck(s) ==
  IF ~s.registeredMode THEN [s |-> s, thrown |-> "BadRptlMode"]
  ELSE [s |-> [s EXCEPT !.returned = Some(s.selfActor)], thrown |-> "none"]

\* getSelf(): [s, thrown]; the actor returned is selfActor, undefined or not.
getSelf(s) ==
  IF ~isSessionRunning(s) THEN [s |-> s, thrown |-> "BadSessionState"]
  ELSE IF ~isRegistered(s) THEN [s |-> s, thrown |-> "BadRptlMode"]
  ELSE [s |-> [s EXCEPT !.returned = Some(s.selfActor)], thrown |-> "none"]

StoppedConnection == <<"stopped">>
OpenConnection == <<"open">>

BeginSession(connectionStopped) ==
  LET r == beginSession(Cur, connectionStopped)
  IN /\ Becomes(r.s)
     /\ lastOp' = Op("beginSession",
                     IF connectionStopped THEN StoppedConnection ELSE OpenConnection,
                     r.thrown, None)

EndSession ==
  LET r == endSession(Cur)
  IN /\ Becomes(r.s)
     /\ lastOp' = Op("endSession", <<>>, r.thrown, None)

Register(identity) ==
  LET r == register(Cur, identity.uid, identity.name)
  IN /\ Becomes(r.s)
     /\ lastOp' = Op("register", <<ToString(identity.uid), SP>> \o identity.name, r.thrown, None)

UpdateActorsSubscribable ==
  LET r == updateActorsSubscribable(Cur)
  IN /\ Becomes(r.s)
     /\ lastOp' = Op("updateActorsSubscribable", <<>>, r.thrown, None)

UpdateStatusFromServer ==
  LET r == updateStatusFromServer(Cur)
  IN /\ Becomes(r.s)
     /\ lastOp' = Op("updateStatusFromServer", <<>>, r.thrown, None)

GetSelf ==
  LET r == getSelf(Cur)
  IN /\ Becomes(r.s)
     /\ lastOp' = Op("getSelf", <<>>, r.thrown, None)

\* MockedWebsocketSubject.fromServer(line): a running connection hands the
\* line to the next callback of the engine; a stopped one has no subscriber.
FromServer(line) ==
  IF stopped
  THEN /\ Becomes(Cur)
       /\ lastOp' = Op("fromServerIgnored", line, "none", None)
  ELSE LET r == OnMessage(Cur, line)
       IN /\ Len(r.s.lastActorsValue) <= MaxActors
          /\ Becomes(r.s)
          /\ lastOp' = Op("fromServer", line, IF r.escaped = None THEN "none" ELSE "escaped", r.caught)

\* MockedWebsocketSubject.closeFromServer() on the running connection.
CloseFromServer ==
  /\ ~stopped
  /\ Becomes(SuperComplete(Cur))
  /\ lastOp' = Op("closeFromServer", <<>>, "none", None)

\* The running connection errors.
ConnectionErrored(message) ==
  /\ ~stopped
  /\ Becomes(ConnectionError(Cur, message))
  /\ lastOp' = Op("connectionError", message, "none", None)

\* ServiceContext.generateServiceRequestUid() called on the context alone.
GenerateServiceRequestUid ==
  LET r == generateServiceRequestUid(Cur)
  IN /\ uidProvider < MaxIssued
     /\ Becomes([r.s EXCEPT !.returned = Some(r.uid)])
     /\ lastOp' = Op("generateServiceRequestUid", <<>>, "none", None)

\* ServiceContext.done(requestUid) called on the context alone.
Done(requestUid) ==
  LET r == done(Cur, requestUid)
  IN /\ Becomes(r.s)
     /\ lastOp' = Op("done", <<NumberText(requestUid)>>,
                     IF r.exc = None THEN "none" ELSE r.exc[1].type, None)

\* SerProtocolService.register(serviceName)
RegisterService(serviceName) ==
  LET r == registerService(Cur, serviceName)
  IN /\ ~hung
     /\ Becomes(r.s)
     /\ lastOp' = Op("registerService", serviceName, r.thrown, None)

\* Requests waiting in the queues of the ServiceSubjects.
RECURSIVE QueuedRequests(_, _)
QueuedRequests(s, names) ==
  IF names = <<>> THEN 0
  ELSE Len(s.serviceRequestsQueue[Head(names)]) + QueuedRequests(s, Tail(names))

\* SerProtocolService.bind(); sendThrows: the transport throws on next().
Bind(sendThrows) ==
  LET r == bind(Cur, sendThrows)
  IN /\ ~hung
     /\ uidProvider + QueuedRequests(Cur, services) <= MaxRequests
     /\ Becomes(r.s)
     /\ lastOp' = Op("bind", <<>>, r.thrown, IF sendThrows THEN Some(SendFailure) ELSE None)

\* next(request) on the ServiceSubject register(serviceName) returned.
SendRequest(serviceName, request, sendThrows) ==
  /\ ~hung
  /\ ServiceLookup(Cur, serviceName) = "ServiceSubject"
  /\ IF CommandsStopped(Cur)
     THEN /\ Len(serviceRequestsQueue[serviceName]) < MaxQueue
          /\ uidProvider + QueuedRequests(Cur, services) < MaxRequests
          /\ ~sendThrows
     ELSE uidProvider < MaxRequests
  /\ Becomes(ServiceSubjectNext(Cur, serviceName, request, sendThrows))
  /\ lastOp' = Op("sendRequest", serviceName \o <<SP>> \o request, "none",
                  IF sendThrows THEN Some(SendFailure) ELSE None)

\* Observers the ServiceSubjects have.
RECURSIVE SubscribedObservers(_, _)
SubscribedObservers(s, names) ==
  IF names = <<>> THEN 0
  ELSE Len(s.observers[Head(names)]) + SubscribedObservers(s, Tail(names))

\* subscribe(observer) on the ServiceSubject register(serviceName) returned,
\* by an observer that is not among its observers.
Subscribe(serviceName, observer) ==
  /\ ~hung
  /\ ServiceLookup(Cur, serviceName) = "ServiceSubject"
  /\ SubscribedObservers(Cur, services) < MaxObservers
  /\ \A i \in 1..Len(observers[serviceName]) : observers[serviceName][i] # observer
  /\ Becomes(subscribe(Cur, serviceName, observer))
  /\ lastOp' = Op("subscribe", serviceName \o <<SP, ToString(observer)>>, "none", None)

\* fire(event) on the ServiceSubject register(serviceName) returned.
Fire(serviceName, event) ==
  /\ ~hung
  /\ ServiceLookup(Cur, serviceName) = "ServiceSubject"
  /\ Becomes(fire(Cur, serviceName, event))
  /\ lastOp' = Op("fire", serviceName \o <<SP>> \o event, "none", None)

\* error(err) on the ServiceSubject register(serviceName) returned.
ServiceError(serviceName) ==
  /\ ~hung
  /\ ServiceLookup(Cur, serviceName) = "ServiceSubject"
  /\ Becomes(ServiceSubjectError(Cur, serviceName, SendFailure))
  /\ lastOp' = Op("error", serviceName, "none", None)

\* complete() on the ServiceSubject register(serviceName) returned.
Complete(serviceName) ==
  LET r == ServiceSubjectComplete(Cur, serviceName)
  IN /\ ~hung
     /\ ServiceLookup(Cur, serviceName) = "ServiceSubject"
     /\ Becomes(r.s)
     /\ lastOp' = Op("complete", serviceName, r.thrown, None)

\* new CommandParser(unparsed)
NewCommandParser(unparsed) ==
  /\ Becomes([Cur EXCEPT !.thisParser = CommandParser(unparsed, EmptyData)])
  /\ lastOp' = Op("newCommandParser", unparsed, "none", None)

\* The names of schemes, in order.
NamesOf(schemes) == [k \in 1..Len(schemes) |-> schemes[k].name]

\* thisParser.parseTo(schemes).  The parser it makes is given this.parsedData
\* itself, not a copy: what the schemes loop writes is written in the
\* parsedData of the receiver too, also when the call ends by a throw.
ParseTo(schemes) ==
  LET r == parseTo(thisParser, schemes)
  IN /\ Becomes([Cur EXCEPT !.newParser = r,
                            !.thisParser = CommandParser(thisParser.unparsed, r.parser.parsedData)])
     /\ lastOp' = Op("parseTo", NamesOf(schemes),
                     IF r.err = None THEN "none" ELSE "BadArgumentScheme", None)

\* The caller goes on with the parser the last parseTo call returned.
ParseOn ==
  /\ lastOp.op = "parseTo"
  /\ newParser.err = None
  /\ Becomes([Cur EXCEPT !.thisParser = newParser.parser])
  /\ lastOp' = Op("parseOn", <<>>, "none", None)

Next ==
  \/ \E connectionStopped \in BOOLEAN : BeginSession(connectionStopped)
  \/ EndSession
  \/ \E identity \in Identities : Register(identity)
  \/ UpdateActorsSubscribable
  \/ UpdateStatusFromServer
  \/ GetSelf
  \/ \E line \in ServerLines : FromServer(line)
  \/ CloseFromServer
  \/ \E message \in ConnectionErrorMessages : ConnectionErrored(message)

Spec == Init /\ [][Next]_vars

\* The ServiceContext driven alone.
ContextNext ==
  \/ GenerateServiceRequestUid
  \/ \E requestUid \in ContextUids : Done(requestUid)

ContextSpec == Init /\ [][ContextNext]_vars

\* The SER engine on top of the RPTL engine.  Nothing is called once a call
\* does not return.
SerNext ==
  \/ ~hung /\ BeginSession(FALSE)
  \/ ~hung /\ EndSession
  \/ ~hung /\ (\E line \in SerServerLines : FromServer(line))
  \/ ~hung /\ CloseFromServer
  \/ \E serviceName \in ServiceNames : RegisterService(serviceName)
  \/ \E sendThrows \in BOOLEAN : Bind(sendThrows)
  \/ \E serviceName \in ServiceNames, request \in Requests, sendThrows \in BOOLEAN :
        SendRequest(serviceName, request, sendThrows)

SerSpec == Init /\ [][SerNext]_vars

\* The CommandParser driven alone.
ParserNext ==
  \/ \E unparsed \in ParserInputs : NewCommandParser(unparsed)
  \/ \E schemes \in SchemeLists : ParseTo(schemes)
  \/ ParseOn

ParserSpec == Init /\ [][ParserNext]_vars

\* Lines the server sends while the channels are driven.
ChannelServerLines == {LRegistrationOne, LEventChat, LEventUnknown}

\* The ServiceSubjects with their observers, on top of both engines.
ChannelNext ==
  \/ ~hung /\ BeginSession(FALSE)
  \/ ~hung /\ (\E line \in ChannelServerLines : FromServer(line))
  \/ ~hung /\ CloseFromServer
  \/ \E serviceName \in ServiceNames : RegisterService(serviceName)
  \/ \E sendThrows \in BOOLEAN : Bind(sendThrows)
  \/ \E serviceName \in ServiceNames, observer \in Observers : Subscribe(serviceName, observer)
  \/ \E serviceName \in ServiceNames, sendThrows \in BOOLEAN :
        SendRequest(serviceName, <<"hi">>, sendThrows)
  \/ \E serviceName \in ServiceNames : Fire(serviceName, <<"a", SP, SP, "b">>)
  \/ \E serviceName \in ServiceNames : ServiceError(serviceName)
  \/ \E serviceName \in ServiceNames : Complete(serviceName)

ChannelSpec == Init /\ [][ChannelNext]_vars

\* ======================================================================
\* Properties
\* ======================================================================

\* What a line says, read off the wire grammar: its lexemes in order.
IsLexeme(x) == x # SP
Lexemes(line) == SelectSeq(line, IsLexeme)
HasCommand(line) == Len(Lexemes(line)) > 0
CommandOf(line) == Lexemes(line)[1]
ArgumentsOf(line) == Tail(Lexemes(line))

\* Position of the first lexeme at or after position i (Len + 1 if none).
RECURSIVE FirstLexemeFrom(_, _)
FirstLexemeFrom(line, i) ==
  IF i > Len(line) \/ line[i] # SP THEN i ELSE FirstLexemeFrom(line, i + 1)

\* The free text that follows the command of a line, spacing kept.
TextAfterCommand(line) ==
  LET c == FirstLexemeFrom(line, 1)
  IN SubSeq(line, FirstLexemeFrom(line, c + 1), Len(line))

\* Commands that are legal in a mode.
LegalCommands(mode) ==
  IF mode = UNREGISTERED THEN {"AVAILABILITY", "REGISTRATION"}
  ELSE IF mode = REGISTERED THEN {"INTERRUPT", "SERVICE", "LOGGED_IN", "LOGGED_OUT"}
  ELSE {}

NumericLexemes == {"0", "1", "2", "3", "4", "5", "7", "8", "42"}

\* The participants a REGISTRATION line lists, in order.
RECURSIVE PairUp(_)
PairUp(args) ==
  IF Len(args) < 2 THEN <<>>
  ELSE <<[uid |-> NumberOf(<<args[1]>>), name |-> <<args[2]>>]>> \o PairUp(Tail(Tail(args)))

WellFormedRegistration(line) ==
  /\ HasCommand(line)
  /\ CommandOf(line) = "REGISTRATION"
  /\ Len(ArgumentsOf(line)) % 2 = 0
  /\ \A i \in 1..Len(ArgumentsOf(line)) : i % 2 = 1 => ArgumentsOf(line)[i] \in NumericLexemes

AllDisconnected(notifications) ==
  \A i \in 1..Len(notifications) : notifications[i] = DISCONNECTED

\* ---------------------------------------------------------------------- C1
\* C1: the mode only changes Disconnected -> Unregistered (by a successful
\* beginSession), Unregistered -> Registered (by a REGISTRATION line received
\* while Unregistered) and Unregistered/Registered -> Disconnected; never
\* Disconnected -> Registered, never Registered -> Unregistered, and a
\* register() call never changes the mode.
C1_ModeTransitions ==
  [][ /\ Mode' # Mode =>
           \/ /\ Mode = DISCONNECTED /\ Mode' = UNREGISTERED
              /\ lastOp'.op = "beginSession" /\ lastOp'.thrown = "none"
           \/ /\ Mode = UNREGISTERED /\ Mode' = REGISTERED
              /\ lastOp'.op = "fromServer"
              /\ HasCommand(lastOp'.arg) /\ CommandOf(lastOp'.arg) = "REGISTRATION"
           \/ /\ Mode \in {UNREGISTERED, REGISTERED} /\ Mode' = DISCONNECTED
      /\ lastOp'.op = "register" => Mode' = Mode
    ]_vars

\* A second session has become Registered by a REGISTRATION line, with
\* register() called before.
C1_Witness ==
  /\ Mode = REGISTERED
  /\ lastOp.op = "fromServer" /\ lastOp.modeBefore = UNREGISTERED
  /\ selfActor # None
  /\ serProtocol.st = "open"

\* ---------------------------------------------------------------------- C2
\* Lines of the cases the claim lists, for the mode they are received in.
RaisesException(mode, line) ==
  \/ ~HasCommand(line)
  \/ /\ HasCommand(line)
     /\ \/ mode = REGISTERED /\ CommandOf(line) = "LOGGED_IN" /\ Len(ArgumentsOf(line)) < 2
        \/ mode = REGISTERED /\ CommandOf(line) = "LOGGED_OUT" /\ Len(ArgumentsOf(line)) < 1
        \/ mode = UNREGISTERED /\ CommandOf(line) = "AVAILABILITY" /\ Len(ArgumentsOf(line)) < 2
        \/ mode = UNREGISTERED /\ CommandOf(line) = "REGISTRATION" /\ Len(ArgumentsOf(line)) % 2 = 1
        \/ CommandOf(line) \in LegalCommands(UNREGISTERED) \cup LegalCommands(REGISTERED)
             /\ CommandOf(line) \notin LegalCommands(mode)

\* C2: when handling an inbound line of a running session raises an exception
\* (no command, missing LOGGED_IN / LOGGED_OUT / AVAILABILITY arguments, odd
\* REGISTRATION arguments, command of the other mode), the connection is
\* closed with code 1011 and the message of the exception as reason, the mode
\* is Disconnected once the line is handled and nothing is thrown to the
\* connection.
C2_FatalLineClosesConnection ==
  lastOp.op = "fromServer" =>
    /\ RaisesException(lastOp.modeBefore, lastOp.arg) => lastOp.caught # None
    /\ lastOp.caught # None =>
         /\ closureReason = Some([code |-> 1011, reason |-> lastOp.caught[1].message])
         /\ stopped
         /\ Mode = DISCONNECTED
         /\ lastOp.thrown = "none"

\* A REGISTRATION line with an odd number of arguments has been handled.
C2_Witness ==
  /\ lastOp.op = "fromServer"
  /\ lastOp.arg = LRegistrationOdd
  /\ lastOp.modeBefore = UNREGISTERED
  /\ lastOp.caught = Some([type |-> "BadServerMessage", message |-> <<"Not enough arguments to parse", 2, 1>>])
  /\ Mode = DISCONNECTED

\* ---------------------------------------------------------------------- C3
\* C3: a line whose command is not one of the commands legal in the mode it
\* is received in is fatal with reason 'Unavailable command: <name>' and
\* publishes nothing on the roster, availability and SER streams.
C3_IllegalCommandIsFatal ==
  (/\ lastOp.op = "fromServer"
   /\ HasCommand(lastOp.arg)
   /\ CommandOf(lastOp.arg) \notin LegalCommands(lastOp.modeBefore)) =>
    /\ lastOp.caught = Some([type |-> "BadServerMessage",
                             message |-> <<"Unavailable command", <<CommandOf(lastOp.arg)>>>>])
    /\ closureReason = Some([code |-> 1011,
                             reason |-> <<"Unavailable command", <<CommandOf(lastOp.arg)>>>>])
    /\ Mode = DISCONNECTED
    /\ actorsOut = <<>> /\ statusOut = <<>> /\ serOut = <<>>

\* ---------------------------------------------------------------------- C4
\* C4: a well-formed REGISTRATION line received while Unregistered sets the
\* mode to Registered, makes the roster exactly the participants the line
\* lists, completes the Availability stream and emits the single state
\* notification Registered.
C4_RegistrationEntersRegistered ==
  (/\ lastOp.op = "fromServer"
   /\ lastOp.modeBefore = UNREGISTERED
   /\ WellFormedRegistration(lastOp.arg)) =>
    /\ Mode = REGISTERED
    /\ lastActorsValue = PairUp(ArgumentsOf(lastOp.arg))
    /\ availability.st = "completed"
    /\ actors.st = "open" /\ serProtocol.st = "open"
    /\ notified = <<REGISTERED>>
    /\ lastOp.caught = None

\* 'REGISTRATION 42 Alice 7 Bob' (with repeated separators) has been handled.
C4_Witness ==
  /\ lastOp.op = "fromServer"
  /\ lastOp.modeBefore = UNREGISTERED
  /\ lastOp.arg = LRegistrationTwo
  /\ lastActorsValue = <<Actor(42, <<"Alice">>), Actor(7, <<"Bob">>)>>
  /\ Mode = REGISTERED

\* ---------------------------------------------------------------------- C5
\* C5: an INTERRUPT line received while Registered leaves the session
\* Disconnected, transport closed afterwards or not, and every state
\* notification emitted from its reception on is Disconnected.
C5_InterruptDisconnects ==
  (/\ lastOp.op = "fromServer"
   /\ lastOp.modeBefore = REGISTERED
   /\ HasCommand(lastOp.arg)
   /\ CommandOf(lastOp.arg) = "INTERRUPT") =>
    /\ Mode = DISCONNECTED
    /\ AllDisconnected(notified)

\* ---------------------------------------------------------------------- C6
\* The operation op (a value of lastOp) is a teardown: endSession while
\* Unregistered, transport completion, transport error, INTERRUPT, or a
\* fatal protocol violation.
IsInterrupt(op) ==
  /\ op.op = "fromServer" /\ op.modeBefore = REGISTERED
  /\ HasCommand(op.arg) /\ CommandOf(op.arg) = "INTERRUPT"

IsViolation(op) == op.op = "fromServer" /\ op.caught # None

IsTeardown(op) ==
  \/ op.op = "endSession" /\ op.modeBefore = UNREGISTERED
  \/ op.op = "closeFromServer"
  \/ op.op = "connectionError"
  \/ IsInterrupt(op)
  \/ IsViolation(op)

\* The error message present in the cause of a teardown (<<>> if none).
MessageOfCause(op) ==
  IF op.op = "connectionError" THEN op.arg
  ELSE IF IsViolation(op) THEN op.caught[1].message
  ELSE IF IsInterrupt(op) THEN TextAfterCommand(op.arg)
  ELSE <<>>

\* The error message clearSession is given by the cause of a teardown: a
\* fatal protocol violation closes the connection, whose completion clears
\* the session without a message.
MessageGiven(op) == IF IsViolation(op) THEN <<>> ELSE MessageOfCause(op)

\* An open stream is finalized according to message, a finalized or absent
\* one is left as it is.
Finalized(before, after, message) ==
  IF before.st = "open"
  THEN after = IF message # <<>> THEN [st |-> "errored", err |-> message]
                                 ELSE [st |-> "completed", err |-> <<>>]
  ELSE after = before

\* C6 as stated: every teardown cause finalizes the open Availability, SER
\* and roster streams, with an error carrying the message exactly when the
\* cause has an error message (the exception message for a fatal protocol
\* violation) and with normal completion otherwise.
C6_FinalizedByCause ==
  [][IsTeardown(lastOp') =>
       /\ Finalized(serProtocol, serProtocol', MessageOfCause(lastOp'))
       /\ Finalized(actors, actors', MessageOfCause(lastOp'))
       /\ Finalized(availability, availability', MessageOfCause(lastOp'))
    ]_vars

\* C6 amended: every teardown cause finalizes the streams that are still
\* open, with an error carrying the message exactly when clearSession is
\* given a message (INTERRUPT with a message, transport error with a
\* message) and with normal completion otherwise, a fatal protocol violation
\* included; streams already finalized keep their first outcome, so INTERRUPT
\* with a message followed by close leaves an open SER stream errored with
\* that message and bare INTERRUPT followed by close leaves it completed.
C6_FinalizedByMessageGiven ==
  [][IsTeardown(lastOp') =>
       /\ Finalized(serProtocol, serProtocol', MessageGiven(lastOp'))
       /\ Finalized(actors, actors', MessageGiven(lastOp'))
       /\ Finalized(availability, availability', MessageGiven(lastOp'))
    ]_vars

\* The transport has been closed after 'INTERRUPT   An  error': the SER and
\* roster streams are errored with the message.
C6_Witness ==
  /\ lastOp.op = "closeFromServer"
  /\ Mode = DISCONNECTED
  /\ serProtocol = [st |-> "errored", err |-> <<"An", SP, SP, "error">>]
  /\ actors = [st |-> "errored", err |-> <<"An", SP, SP, "error">>]
  /\ availability.st = "completed"

\* ---------------------------------------------------------------------- C7
\* C7: endSession() while Registered sends exactly one LOGOUT line, does not
\* close the transport and emits no state notification; the mode then stays
\* Registered until the transport is stopped, which no call of the
\* application does.
C7_EndSessionRegistered ==
  [][ /\ (lastOp'.op = "endSession" /\ Mode = REGISTERED) =>
           /\ lastOp'.thrown = "none"
           /\ sent' = <<LOGOUT>>
           /\ ~stopped' /\ closureReason' = closureReason
           /\ notified' = <<>>
           /\ Mode' = REGISTERED
      /\ (Mode = REGISTERED /\ Mode' # REGISTERED) =>
           /\ stopped'
           /\ lastOp'.op \in {"closeFromServer", "connectionError", "fromServer"}
    ]_vars

\* endSession() has been called in a Registered session.
C7_Witness ==
  /\ lastOp.op = "endSession"
  /\ lastOp.modeBefore = REGISTERED
  /\ sent = <<LOGOUT>>
  /\ Mode = REGISTERED

\* ---------------------------------------------------------------------- C8
\* C8: endSession() while Unregistered closes the transport with code 1000,
\* sends no line, leaves the mode Disconnected and emits a Disconnected
\* state notification (and no other).
C8_EndSessionUnregistered ==
  (lastOp.op = "endSession" /\ lastOp.modeBefore = UNREGISTERED) =>
    /\ lastOp.thrown = "none"
    /\ stopped
    /\ closureReason = Some([code |-> 1000, reason |-> <<>>])
    /\ sent = <<>>
    /\ Mode = DISCONNECTED
    /\ Len(notified) >= 1 /\ AllDisconnected(notified)

\* endSession() has been called in an Unregistered session.
C8_Witness ==
  /\ lastOp.op = "endSession"
  /\ lastOp.modeBefore = UNREGISTERED
  /\ lastOp.thrown = "none"
  /\ Mode = DISCONNECTED

\* ---------------------------------------------------------------------- C9
\* C9: beginSession fails with BadSessionState when a session is running and
\* with BadConnectionSubject when no session is running and the transport
\* given is stopped, succeeds otherwise; a failed call changes nothing and
\* emits no state notification.
C9_BeginSessionFailures ==
  [][lastOp'.op = "beginSession" =>
       /\ Mode # DISCONNECTED => lastOp'.thrown = "BadSessionState"
       /\ (Mode = DISCONNECTED /\ lastOp'.arg = StoppedConnection) => lastOp'.thrown = "BadConnectionSubject"
       /\ (Mode = DISCONNECTED /\ lastOp'.arg = OpenConnection) => lastOp'.thrown = "none"
       /\ lastOp'.thrown # "none" =>
            /\ UNCHANGED <<stopped, closureReason, registeredMode, selfActor, actors,
                           lastActorsValue, availability, serProtocol>>
            /\ Mode' = Mode
            /\ notified' = <<>> /\ sent' = <<>>
    ]_vars

\* beginSession has failed on a stopped transport while Disconnected, after
\* a session that was Registered.
C9_Witness ==
  /\ lastOp.op = "beginSession"
  /\ lastOp.thrown = "BadConnectionSubject"
  /\ Mode = DISCONNECTED
  /\ registeredMode

\* beginSession has failed while a session was running.
C9_WitnessRunning ==
  /\ lastOp.op = "beginSession"
  /\ lastOp.thrown = "BadSessionState"
  /\ Mode = REGISTERED

\* --------------------------------------------------------------------- C10
\* C10 as stated: after a successful beginSession the mode is Unregistered,
\* the roster is empty, a fresh open Availability stream exists and
\* Unregistered has been notified; a completion or error of the transport
\* leaves the session Disconnected.
C10_BeginSessionResetsRoster ==
  /\ (lastOp.op = "beginSession" /\ lastOp.thrown = "none") =>
       /\ Mode = UNREGISTERED
       /\ lastActorsValue = <<>>
       /\ availability = NewSubject
       /\ notified = <<UNREGISTERED>>
  /\ lastOp.op \in {"closeFromServer", "connectionError"} =>
       /\ Mode = DISCONNECTED
       /\ notified = <<DISCONNECTED>>

\* C10 amended: after a successful beginSession the mode is Unregistered,
\* there is no roster stream (the stored roster is left as the previous
\* session left it until REGISTRATION replaces it), a fresh open Availability
\* stream exists and Unregistered has been notified; a completion or error
\* of the transport leaves the session Disconnected.
C10_BeginSessionResetsStreams ==
  /\ (lastOp.op = "beginSession" /\ lastOp.thrown = "none") =>
       /\ Mode = UNREGISTERED
       /\ actors = Undefined
       /\ availability = NewSubject
       /\ notified = <<UNREGISTERED>>
  /\ lastOp.op \in {"closeFromServer", "connectionError"} =>
       /\ Mode = DISCONNECTED
       /\ notified = <<DISCONNECTED>>

\* A session has begun after one that had been Registered with a roster.
C10_Witness ==
  /\ lastOp.op = "beginSession" /\ lastOp.thrown = "none"
  /\ Mode = UNREGISTERED
  /\ lastActorsValue # <<>>
  /\ availability = NewSubject

\* --------------------------------------------------------------------- C11
\* The lexemes an identity is recorded with in lastOp.arg.
IdentityArg(identity) == <<ToString(identity.uid), SP>> \o identity.name

\* C11: register(uid, name) called while Unregistered records (uid, name) as
\* the identity of the local participant, sends exactly the one line
\* 'LOGIN <uid> <name>', changes neither the mode nor the roster and emits no
\* state notification.
C11_RegisterRecordsAndSends ==
  [][(lastOp'.op = "register" /\ Mode = UNREGISTERED) =>
       /\ lastOp'.thrown = "none"
       /\ \E identity \in Identities :
            /\ lastOp'.arg = IdentityArg(identity)
            /\ selfActor' = Some(identity)
            /\ sent' = <<(<<"LOGIN", SP>> \o IdentityArg(identity))>>
       /\ Mode' = UNREGISTERED
       /\ UNCHANGED <<lastActorsValue, actors>>
       /\ actorsOut' = <<>>
       /\ notified' = <<>>
    ]_vars

\* register() has replaced, while Unregistered, an identity recorded before.
C11_Witness ==
  /\ lastOp.op = "register" /\ lastOp.thrown = "none"
  /\ lastOp.modeBefore = UNREGISTERED
  /\ lastOp.arg = IdentityArg(Actor(7, <<"Bob">>))
  /\ selfActor = Some(Actor(7, <<"Bob">>))
  /\ sent = <<(<<"LOGIN", SP, "7", SP, "Bob">>)>>
  /\ lastActorsValue # <<>>

\* --------------------------------------------------------------------- C12
GuardedEntryPoints ==
  {"register", "updateStatusFromServer", "getSelf", "updateActorsSubscribable", "endSession"}

\* C12: register, updateStatusFromServer, getSelf, updateActorsSubscribable
\* and endSession fail with BadSessionState whenever no session is running
\* (whatever registeredMode the previous session left); register and
\* updateStatusFromServer fail with BadRptlMode when Registered, getSelf and
\* updateActorsSubscribable when Unregistered; a failing call sends no line
\* and changes no state.
C12_GuardedEntryPoints ==
  [][lastOp'.op \in GuardedEntryPoints =>
       /\ Mode = DISCONNECTED => lastOp'.thrown = "BadSessionState"
       /\ (Mode = REGISTERED /\ lastOp'.op \in {"register", "updateStatusFromServer"}) =>
            lastOp'.thrown = "BadRptlMode"
       /\ (Mode = UNREGISTERED /\ lastOp'.op \in {"getSelf", "updateActorsSubscribable"}) =>
            lastOp'.thrown = "BadRptlMode"
       /\ lastOp'.thrown # "none" =>
            /\ UNCHANGED <<stopped, closureReason, registeredMode, selfActor, actors,
                           lastActorsValue, availability, serProtocol>>
            /\ sent' = <<>> /\ notified' = <<>>
            /\ actorsOut' = <<>> /\ statusOut' = <<>> /\ serOut' = <<>>
            /\ returned' = None
    ]_vars

\* getSelf() has failed after a session that ended while Registered.
C12_Witness ==
  /\ lastOp.op = "getSelf"
  /\ lastOp.thrown = "BadSessionState"
  /\ stopped /\ registeredMode
  /\ selfActor # None

\* --------------------------------------------------------------------- C13
\* A LOGGED_IN line with its two arguments and an integer uid.
IsLoggedIn(line) ==
  /\ HasCommand(line)
  /\ CommandOf(line) = "LOGGED_IN"
  /\ Len(ArgumentsOf(line)) >= 2
  /\ ArgumentsOf(line)[1] \in NumericLexemes

LoggedInActor(line) ==
  Actor(NumberOf(<<ArgumentsOf(line)[1]>>), <<ArgumentsOf(line)[2]>>)

\* C13: while Registered, a LOGGED_IN <uid> <name> line whose uid is the id
\* of the local participant leaves the roster unchanged and publishes
\* nothing on the roster stream; with any other uid it appends (uid, name) to
\* the roster and publishes the updated roster, which holds the newcomer.
C13_LoggedInUpdatesRoster ==
  [][(lastOp'.op = "fromServer" /\ Mode = REGISTERED /\ IsLoggedIn(lastOp'.arg)) =>
       IF selfActor # None /\ selfActor[1].uid = LoggedInActor(lastOp'.arg).uid
       THEN /\ lastActorsValue' = lastActorsValue
            /\ actorsOut' = <<>>
       ELSE /\ lastActorsValue' = Append(lastActorsValue, LoggedInActor(lastOp'.arg))
            /\ actorsOut' = <<lastActorsValue'>>
    ]_vars

\* --------------------------------------------------------------------- C14
\* A LOGGED_OUT line with an integer uid.
IsLoggedOut(line) ==
  /\ HasCommand(line)
  /\ CommandOf(line) = "LOGGED_OUT"
  /\ Len(ArgumentsOf(line)) >= 1
  /\ ArgumentsOf(line)[1] \in NumericLexemes

LoggedOutUid(line) == NumberOf(<<ArgumentsOf(line)[1]>>)

\* roster without the entries of the given id, order kept.
RECURSIVE Without(_, _)
Without(roster, uid) ==
  IF roster = <<>> THEN <<>>
  ELSE IF Head(roster).uid = uid THEN Without(Tail(roster), uid)
  ELSE <<Head(roster)>> \o Without(Tail(roster), uid)

\* C14: while Registered, a LOGGED_OUT <uid> line removes every roster entry
\* whose id is uid, keeps all the others, publishes the resulting roster and
\* leaves the mode Registered.
C14_LoggedOutUpdatesRoster ==
  [][(lastOp'.op = "fromServer" /\ Mode = REGISTERED /\ IsLoggedOut(lastOp'.arg)) =>
       /\ lastActorsValue' = Without(lastActorsValue, LoggedOutUid(lastOp'.arg))
       /\ actorsOut' = <<lastActorsValue'>>
       /\ Mode' = REGISTERED
    ]_vars

\* --------------------------------------------------------------------- C15
IsService(line) == HasCommand(line) /\ CommandOf(line) = "SERVICE"

\* C15: while Registered, a 'SERVICE <rest>' line delivers exactly <rest>,
\* internal spacing kept, once to the subscribers of the SER stream of the
\* session, and changes neither the mode, the roster nor the state stream.
C15_ServiceForwardsRest ==
  [][(lastOp'.op = "fromServer" /\ Mode = REGISTERED /\ IsService(lastOp'.arg)) =>
       /\ serOut' = <<TextAfterCommand(lastOp'.arg)>>
       /\ Mode' = REGISTERED
       /\ UNCHANGED <<lastActorsValue, actors>>
       /\ actorsOut' = <<>>
       /\ notified' = <<>>
    ]_vars

\* --------------------------------------------------------------------- C16
\* C16: the N-th call to generateServiceRequestUid() returns N-1, whatever
\* done() calls are interleaved, and the identifier returned is marked
\* awaiting; the identifiers present are those of the calls made so far.
C16_IssueReturnsCallIndex ==
  lastOp.op = "generateServiceRequestUid" =>
    /\ returned = Some(issueCalls - 1)
    /\ DOMAIN awaitingRequests = 0..(issueCalls - 1)
    /\ awaitingRequests[issueCalls - 1] = FALSE

\* The third call returns 2 after the first identifier was marked responded.
C16_Witness ==
  /\ lastOp.op = "generateServiceRequestUid"
  /\ issueCalls = 3
  /\ returned = Some(2)
  /\ awaitingRequests[0] = TRUE
  /\ awaitingRequests[2] = FALSE

\* --------------------------------------------------------------------- C17
\* The identifier a done() call was given.
DoneArg(op) == CHOOSE requestUid \in ContextUids : op.arg = <<NumberText(requestUid)>>

\* C17: done(id) returns exactly when id was issued and is not marked
\* responded, and then marks it and nothing else; otherwise it throws
\* BadSerCommand and leaves the registry as it was.
C17_DoneOncePerIssued ==
  [][lastOp'.op = "done" =>
       LET id == DoneArg(lastOp')
           issued == id \in 0..(issueCalls - 1)
       IN /\ lastOp'.thrown = "none" <=> (issued /\ awaitingRequests[id] = FALSE)
          /\ lastOp'.thrown = "none" =>
               /\ awaitingRequests' = [awaitingRequests EXCEPT ![id] = TRUE]
          /\ lastOp'.thrown # "none" =>
               /\ lastOp'.thrown = "BadSerCommand"
               /\ awaitingRequests' = awaitingRequests
          /\ UNCHANGED <<uidProvider, issueCalls>>
    ]_vars

\* The second identifier is completed while the first still awaits.
C17_Witness ==
  /\ lastOp.op = "done"
  /\ lastOp.arg = <<"1">>
  /\ lastOp.thrown = "none"
  /\ issueCalls >= 2
  /\ awaitingRequests[0] = FALSE
  /\ awaitingRequests[1] = TRUE

\* --------------------------------------------------------------------- C18
\* What a sendRequest call was given: the service and the payload.
RequestService(op) == <<op.arg[1]>>
RequestPayload(op) == SubSeq(op.arg, 3, Len(op.arg))

\* The line of a request, read off the wire grammar.
RequestLine(n, serviceName, payload) ==
  <<"SERVICE", SP, "REQUEST", SP, ToString(n), SP>> \o serviceName \o <<SP>> \o payload

\* C18: while the SER engine is bound, a request sent on a registered channel
\* is numbered with the count of the requests the engine numbered before it
\* (0 for the first, whatever their channels) and goes out as the one line
\* 'SERVICE REQUEST <n> <serviceName> <payload>'; a transport that throws on
\* the send gets no line and the number is used all the same.
C18_BoundRequestNumbered ==
  [][(lastOp'.op = "sendRequest" /\ isBound(Cur)) =>
       /\ issuedOut' = <<issueCalls>>
       /\ uidProvider' = uidProvider + 1
       /\ IF lastOp'.caught = None
          THEN sent' = <<RequestLine(issueCalls, RequestService(lastOp'), RequestPayload(lastOp'))>>
          ELSE sent' = <<>>
       /\ serviceRequestsQueue' = serviceRequestsQueue
    ]_vars

\* The second request of the engine, the first of its channel, carries 1.
C18_Witness ==
  /\ lastOp.op = "sendRequest"
  /\ lastOp.caught = None
  /\ services = <<<<"Chat">>, <<"Lobby">>>>
  /\ issueCalls = 2
  /\ sent = <<RequestLine(1, <<"Lobby">>, <<"a", SP, SP, "b">>)>>

\* --------------------------------------------------------------------- C19
\* The lines of the payloads of a queue, numbered from n on.
RECURSIVE QueueLines(_, _, _)
QueueLines(n, serviceName, queue) ==
  IF queue = <<>> THEN <<>>
  ELSE <<RequestLine(n, serviceName, Head(queue))>> \o QueueLines(n + 1, serviceName, Tail(queue))

\* lines is a run of consecutive elements of all.
IsRunOf(lines, all) ==
  \E from \in 0..(Len(all) - Len(lines)) : SubSeq(all, from + 1, from + Len(lines)) = lines

\* C19: a request sent on a channel whose transport is stopped sends no line,
\* is given no identifier and is appended to the queue of that channel; a
\* bind() that leaves the engine bound to a live transport sends the queued
\* payloads of each channel in their order of insertion, numbered
\* consecutively at that moment, sends nothing else, and leaves every queue
\* empty.
C19_QueueThenFlush ==
  [][/\ (lastOp'.op = "sendRequest" /\ ~isBound(Cur)) =>
          /\ sent' = <<>>
          /\ issuedOut' = <<>>
          /\ UNCHANGED <<uidProvider, awaitingRequests>>
          /\ serviceRequestsQueue' =
               [serviceRequestsQueue EXCEPT ![RequestService(lastOp')] = Append(@, RequestPayload(lastOp'))]
     /\ (lastOp'.op = "bind" /\ lastOp'.thrown = "none" /\ isBound(Cur') /\ lastOp'.caught = None) =>
          /\ \A name \in DOMAIN serviceRequestsQueue :
               /\ serviceRequestsQueue'[name] = <<>>
               /\ \E n \in issueCalls..(issueCalls + Len(sent')) :
                    IsRunOf(QueueLines(n, name, serviceRequestsQueue[name]), sent')
          /\ Len(sent') = QueuedRequests(Cur, services)
          /\ issuedOut' = [i \in 1..Len(sent') |-> issueCalls + i - 1]
    ]_vars

\* Two requests queued on a channel after the engine numbered one go out as 1
\* and 2, in their order.
C19_Witness ==
  /\ lastOp.op = "bind"
  /\ lastOp.thrown = "none"
  /\ commandsIsSession /\ serProtocol.st = "open"
  /\ sent = <<RequestLine(1, <<"Chat">>, <<"a", SP, SP, "b">>), RequestLine(2, <<"Chat">>, <<"hi">>)>>
  /\ serviceRequestsQueue[<<"Chat">>] = <<>>

\* --------------------------------------------------------------------- C20
\* The free text that follows the k first lexemes of a line, spacing kept.
RECURSIVE TextAfterLexemes(_, _)
TextAfterLexemes(line, k) ==
  IF k = 0 THEN SubSeq(line, FirstLexemeFrom(line, 1), Len(line))
  ELSE LET rest == TextAfterLexemes(line, k - 1)
       IN SubSeq(rest, FirstLexemeFrom(rest, 2), Len(rest))

\* 'SERVICE RESPONSE <id> <status> ...' naming an identifier that awaits.
IsResponseForAwaiting(line, status) ==
  /\ Len(Lexemes(line)) >= 4
  /\ Lexemes(line)[1] = "SERVICE"
  /\ Lexemes(line)[2] = "RESPONSE"
  /\ Lexemes(line)[3] \in NumericLexemes
  /\ Lexemes(line)[4] = status
  /\ NumberOf(<<Lexemes(line)[3]>>) \in DOMAIN awaitingRequests
  /\ ~awaitingRequests[NumberOf(<<Lexemes(line)[3]>>)]

\* C20: received by the bound engine, 'RESPONSE <id> KO <msg>' for an
\* identifier that awaits marks it responded and publishes <msg> once on the
\* error stream, 'RESPONSE <id> OK' marks it and publishes nothing; in both
\* cases the engine stays bound, endSession() is not called, and the error
\* stream stays open.
C20_ResponseAnswersRequest ==
  [][(lastOp'.op = "fromServer" /\ Mode = REGISTERED /\ isBound(Cur)
        /\ (IsResponseForAwaiting(lastOp'.arg, "KO") \/ IsResponseForAwaiting(lastOp'.arg, "OK"))) =>
       /\ awaitingRequests' =
            [awaitingRequests EXCEPT ![NumberOf(<<Lexemes(lastOp'.arg)[3]>>)] = TRUE]
       /\ errorsOut' = IF IsResponseForAwaiting(lastOp'.arg, "KO")
                       THEN <<TextAfterLexemes(lastOp'.arg, 4)>>
                       ELSE <<>>
       /\ isBound(Cur')
       /\ serCaught' = None
       /\ sent' = <<>>
       /\ errors'.st = "open"
    ]_vars

\* --------------------------------------------------------------------- C21
\* 'SERVICE RESPONSE <id> <OK|KO> ...' naming an identifier that does not
\* await: never issued, or already responded (answered, or released after a
\* send failure).
IsResponseForNotAwaiting(line) ==
  /\ Len(Lexemes(line)) >= 4
  /\ Lexemes(line)[1] = "SERVICE"
  /\ Lexemes(line)[2] = "RESPONSE"
  /\ Lexemes(line)[3] \in NumericLexemes
  /\ Lexemes(line)[4] \in {"OK", "KO"}
  /\ \/ NumberOf(<<Lexemes(line)[3]>>) \notin DOMAIN awaitingRequests
     \/ awaitingRequests[NumberOf(<<Lexemes(line)[3]>>)]

\* C21: received by the bound engine, a RESPONSE naming an identifier that
\* was never issued, was already answered, or was released after a send
\* failure is fatal: the error is caught, endSession() is called on the RPTL
\* engine (its logout line is the one line sent), nothing is published on the
\* error stream, and the identifiers keep their marks.
C21_ResponseForNotAwaitingIsFatal ==
  [][(lastOp'.op = "fromServer" /\ Mode = REGISTERED /\ isBound(Cur)
        /\ IsResponseForNotAwaiting(lastOp'.arg)) =>
       /\ serCaught' # None
       /\ sent' = <<LOGOUT>>
       /\ errorsOut' = <<>>
       /\ awaitingRequests' = awaitingRequests
    ]_vars

\* A RESPONSE for identifier 0 was received after identifier 0 was marked
\* responded, and a RESPONSE for the never issued identifier 5 can follow.
C21_Witness ==
  /\ lastOp.op = "fromServer"
  /\ lastOp.arg = LResponseOk
  /\ serCaught # None
  /\ sent = <<LOGOUT>>
  /\ 0 \in DOMAIN awaitingRequests
  /\ awaitingRequests[0]

\* --------------------------------------------------------------------- C22
\* 'SERVICE EVENT <serviceName> ...'
IsEvent(line) ==
  /\ Len(Lexemes(line)) >= 3
  /\ Lexemes(line)[1] = "SERVICE"
  /\ Lexemes(line)[2] = "EVENT"

\* The service an EVENT line names, and whether a channel is registered under it.
EventService(line) == <<Lexemes(line)[3]>>
IsRegisteredService(serviceName) == \E i \in 1..Len(services) : services[i] = serviceName

\* The event given once to each observer of a channel, in their order.
DeliveredTo(serviceName, event) ==
  [i \in 1..Len(observers[serviceName]) |->
     [service |-> serviceName, observer |-> observers[serviceName][i], event |-> event]]

\* C22: received by the bound engine, 'EVENT <serviceName> <rest>' gives <rest>
\* once to each observer of the channel registered under serviceName and to
\* no observer of another channel, and endSession() is not called; when no
\* channel is registered under serviceName the error is caught, endSession()
\* is called and no observer receives anything.
C22_EventReachesItsChannel ==
  [][(lastOp'.op = "fromServer" /\ Mode = REGISTERED /\ isBound(Cur) /\ IsEvent(lastOp'.arg)) =>
       IF IsRegisteredService(EventService(lastOp'.arg))
       THEN /\ eventsOut' = DeliveredTo(EventService(lastOp'.arg), TextAfterLexemes(lastOp'.arg, 3))
            /\ serCaught' = None
            /\ sent' = <<>>
            /\ isBound(Cur')
       ELSE /\ eventsOut' = <<>>
            /\ serCaught' # None
            /\ sent' = <<LOGOUT>>
    ]_vars

\* --------------------------------------------------------------------- C23
\* A SERVICE line whose payload is empty, starts with a token that is neither
\* EVENT nor RESPONSE, is an EVENT without its service, a RESPONSE without its
\* identifier or status, or a RESPONSE whose status is neither OK nor KO.
IsMalformedSer(line) ==
  /\ HasCommand(line)
  /\ CommandOf(line) = "SERVICE"
  /\ \/ Len(Lexemes(line)) = 1
     \/ /\ Len(Lexemes(line)) >= 2
        /\ \/ Lexemes(line)[2] \notin {"EVENT", "RESPONSE"}
           \/ Lexemes(line)[2] = "EVENT" /\ Len(Lexemes(line)) < 3
           \/ Lexemes(line)[2] = "RESPONSE" /\ Len(Lexemes(line)) < 4
           \/ /\ Lexemes(line)[2] = "RESPONSE"
              /\ Len(Lexemes(line)) >= 4
              /\ Lexemes(line)[4] \notin {"OK", "KO"}

\* C23: received by the bound engine, a malformed SER payload is fatal: the
\* error is caught, endSession() is called (its logout line is the one line
\* sent), no event reaches an observer, nothing is published on the error
\* stream and no identifier is marked.
C23_MalformedSerIsFatal ==
  [][(lastOp'.op = "fromServer" /\ Mode = REGISTERED /\ isBound(Cur)
        /\ IsMalformedSer(lastOp'.arg)) =>
       /\ serCaught' # None
       /\ sent' = <<LOGOUT>>
       /\ eventsOut' = <<>>
       /\ errorsOut' = <<>>
       /\ awaitingRequests' = awaitingRequests
    ]_vars

\* A RESPONSE with the status MAYBE was received for identifier 0 while it
\* awaited its response.
C23_Witness ==
  /\ lastOp.op = "fromServer"
  /\ lastOp.arg = LResponseMaybe
  /\ lastOp.modeBefore = REGISTERED
  /\ serCaught # None
  /\ 0 \in DOMAIN awaitingRequests
  /\ ~awaitingRequests[0]

\* --------------------------------------------------------------------- C24
\* The error handleCommand raises for the payload of a SERVICE line in the
\* current state (None when it raises none).
SerErrorFor(line) == handleCommand(Cur, TextAfterCommand(line)).exc

\* C24: when handleCommand raises an error for a payload the bound engine
\* receives, the error is caught by the engine's subscriber and endSession()
\* is called on the RPTL engine (its logout line is the one line sent); the
\* line dispatcher catches nothing, nothing escapes to the transport, and the
\* transport is neither errored nor closed by that step.
C24_SerErrorCaughtEndsSession ==
  [][(lastOp'.op = "fromServer" /\ Mode = REGISTERED /\ isBound(Cur)
        /\ HasCommand(lastOp'.arg) /\ CommandOf(lastOp'.arg) = "SERVICE"
        /\ SerErrorFor(lastOp'.arg) # None) =>
       /\ serCaught' = SerErrorFor(lastOp'.arg)
       /\ sent' = <<LOGOUT>>
       /\ lastOp'.caught = None
       /\ lastOp'.thrown = "none"
       /\ stopped' = stopped
       /\ closureReason' = closureReason
    ]_vars

\* 'SERVICE PING' was received by the bound engine: its error was caught and
\* the logout line sent on a transport that is still open.
C24_Witness ==
  /\ lastOp.op = "fromServer"
  /\ lastOp.arg = LServicePing
  /\ lastOp.modeBefore = REGISTERED
  /\ serCaught # None
  /\ serCaught[1].type = "BadSerCommand"
  /\ sent = <<LOGOUT>>
  /\ ~stopped

\* --------------------------------------------------------------------- C25
\* The line received is a fatal violation: its command is illegal in the
\* mode, the RPTL dispatcher caught an error while handling it, or the bound
\* SER engine raised an error for its payload.
IsFatalViolation(line) ==
  \/ HasCommand(line) /\ CommandOf(line) \notin LegalCommands(Mode)
  \/ lastOp'.caught # None
  \/ /\ Mode = REGISTERED /\ isBound(Cur)
     /\ HasCommand(line) /\ CommandOf(line) = "SERVICE"
     /\ SerErrorFor(line) # None

\* C25: a fatal violation met while a line is processed leaves the session
\* Disconnected, with Disconnected as the last value published on the state
\* stream, and the transport stopped, so that no later line of that session
\* is processed.
C25_FatalViolationDisconnects ==
  [][(lastOp'.op = "fromServer" /\ IsFatalViolation(lastOp'.arg)) =>
       /\ ModeOf(Cur') = DISCONNECTED
       /\ notified' # <<>>
       /\ notified'[Len(notified')] = DISCONNECTED
       /\ stopped'
    ]_vars

\* --------------------------------------------------------------------- C26
\* C26: registerService(name) throws UnavailableServiceName exactly when a
\* channel is registered under name, and then changes no state; otherwise it
\* appends name to the registry.  No other operation changes the registry,
\* and on the bound engine an EVENT naming a registered channel reaches the
\* observers of that channel, whatever was bound, ended or failed before.
C26_RegisterOncePersists ==
  [][/\ IF lastOp'.op = "registerService"
        THEN IF IsRegisteredService(lastOp'.arg)
             THEN /\ lastOp'.thrown = "UnavailableServiceName"
                  /\ services' = services
                  /\ serviceRequestsQueue' = serviceRequestsQueue
                  /\ observers' = observers
             ELSE /\ lastOp'.thrown = "none"
                  /\ services' = Append(services, lastOp'.arg)
        ELSE services' = services
     /\ (/\ lastOp'.op = "fromServer" /\ Mode = REGISTERED /\ isBound(Cur)
         /\ IsEvent(lastOp'.arg) /\ IsRegisteredService(EventService(lastOp'.arg))) =>
          eventsOut' = DeliveredTo(EventService(lastOp'.arg), TextAfterLexemes(lastOp'.arg, 3))
    ]_vars

\* --------------------------------------------------------------------- C27
\* C27: bind() on a bound engine throws BadSerState and changes nothing; a
\* bind() call on an unbound engine that returns does not throw and leaves
\* the engine bound, in whatever mode the RPTL session is.
C27_BindLeavesBound ==
  [][(lastOp'.op = "bind") =>
       IF isBound(Cur)
       THEN /\ lastOp'.thrown = "BadSerState"
            /\ commandsIsSession' = commandsIsSession
            /\ serviceRequestsQueue' = serviceRequestsQueue
            /\ uidProvider' = uidProvider
            /\ awaitingRequests' = awaitingRequests
            /\ sent' = <<>>
       ELSE ~hung' => (lastOp'.thrown = "none" /\ isBound(Cur'))
    ]_vars

\* --------------------------------------------------------------------- C28
\* The error given once to each observer of a channel, in their order.
ErroredTo(serviceName, err) ==
  [i \in 1..Len(observers[serviceName]) |->
     [service |-> serviceName, observer |-> observers[serviceName][i], message |-> err.message]]

\* C28: when the transport throws on the send of a request made on commands
\* that are not stopped, sendRequest returns without throwing, the identifier
\* it was issued is marked responded (done() of it throws afterwards) and the
\* next identifier is the following one, nothing is sent, each observer of
\* the channel is given the failure once, and the channel is not stopped.
C28_SendFailureReported ==
  [][(lastOp'.op = "sendRequest" /\ lastOp'.caught = Some(SendFailure) /\ ~CommandsStopped(Cur)) =>
       /\ lastOp'.thrown = "none"
       /\ issuedOut' = <<uidProvider>>
       /\ uidProvider' = uidProvider + 1
       /\ awaitingRequests' = (uidProvider :> TRUE) @@ awaitingRequests
       /\ done(Cur', uidProvider).exc # None
       /\ sent' = <<>>
       /\ serviceErrorsOut' = ErroredTo(RequestService(lastOp'), SendFailure)
       /\ ~isStopped'[RequestService(lastOp')]
    ]_vars

\* --------------------------------------------------------------------- C29
\* C29: no channel is ever stopped; complete() throws an Error and changes
\* nothing; error(err) returns, gives err once to each observer of the channel
\* and leaves the channel not stopped.
C29_ChannelNeverStopped ==
  [][/\ \A serviceName \in DOMAIN isStopped' : ~isStopped'[serviceName]
     /\ (lastOp'.op = "complete") =>
          /\ lastOp'.thrown = "Error"
          /\ observers' = observers
          /\ serviceRequestsQueue' = serviceRequestsQueue
          /\ eventsOut' = <<>>
          /\ serviceErrorsOut' = <<>>
          /\ sent' = <<>>
     /\ (lastOp'.op = "error") =>
          /\ lastOp'.thrown = "none"
          /\ serviceErrorsOut' = ErroredTo(lastOp'.arg, SendFailure)
    ]_vars

\* --------------------------------------------------------------------- C30
\* A string without its leading separators.
RECURSIVE StripSeparators(_)
StripSeparators(text) ==
  IF text # <<>> /\ Head(text) = SP THEN StripSeparators(Tail(text)) ELSE text

\* The leading run of characters other than the separator, and what follows it.
RECURSIVE LeadingRun(_)
LeadingRun(text) ==
  IF text = <<>> \/ Head(text) = SP THEN <<>> ELSE <<Head(text)>> \o LeadingRun(Tail(text))
AfterLeadingRun(text) == SubSeq(text, Len(LeadingRun(text)) + 1, Len(text))

\* The space-delimited tokens of a string, and the string left once its n
\* first tokens are consumed.
RECURSIVE TokensOf(_)
TokensOf(text) ==
  IF StripSeparators(text) = <<>> THEN <<>>
  ELSE <<LeadingRun(StripSeparators(text))>> \o TokensOf(AfterLeadingRun(StripSeparators(text)))
RECURSIVE WithoutTokens(_, _)
WithoutTokens(text, n) ==
  IF n = 0 THEN text ELSE AfterLeadingRun(StripSeparators(WithoutTokens(text, n - 1)))

\* The names are pairwise different and none is in the mapping of the receiver.
UniquelyNamed(names, parsedData) ==
  /\ \A i, j \in 1..Len(names) : names[i] = names[j] => i = j
  /\ \A i \in 1..Len(names) : names[i] \notin DOMAIN parsedData

\* C30: parseTo with N uniquely named schemes on a string of at least N
\* tokens returns a parser whose mapping binds scheme i to token i and keeps
\* what the receiver had, and whose remainder is the string after token N
\* without its leading separators, the rest of its spacing kept; on a string
\* of fewer than N tokens it throws BadArgumentScheme.
C30_ParseToBindsTokens ==
  [][(lastOp'.op = "parseTo" /\ UniquelyNamed(lastOp'.arg, thisParser.parsedData)) =>
       IF Len(TokensOf(thisParser.unparsed)) >= Len(lastOp'.arg)
       THEN /\ lastOp'.thrown = "none"
            /\ newParser'.err = None
            /\ DOMAIN newParser'.parser.parsedData =
                 DOMAIN thisParser.parsedData \cup {lastOp'.arg[i] : i \in 1..Len(lastOp'.arg)}
            /\ \A i \in 1..Len(lastOp'.arg) :
                 newParser'.parser.parsedData[lastOp'.arg[i]] = TokensOf(thisParser.unparsed)[i]
            /\ \A name \in DOMAIN thisParser.parsedData :
                 newParser'.parser.parsedData[name] = thisParser.parsedData[name]
            /\ newParser'.parser.unparsed =
                 StripSeparators(WithoutTokens(thisParser.unparsed, Len(lastOp'.arg)))
       ELSE /\ lastOp'.thrown = "BadArgumentScheme"
            /\ newParser'.err # None
            /\ newParser'.err[1][1] = "Not enough arguments to parse"
    ]_vars

\* --------------------------------------------------------------------- C31
\* C31: a parseTo call, returning or throwing, leaves the mapping and the
\* remainder of its receiver as they were, so that the same call on the same
\* receiver has the same outcome again.
C31_ParseToKeepsReceiver ==
  [][(lastOp'.op = "parseTo") =>
       /\ thisParser'.unparsed = thisParser.unparsed
       /\ thisParser'.parsedData = thisParser.parsedData
       /\ parseTo(thisParser', [k \in 1..Len(lastOp'.arg) |-> Scheme(lastOp'.arg[k], "String")])
            = newParser'
    ]_vars

\* --------------------------------------------------------------------- C32
\* C32: a bind() call that does not throw, on a transport that does not throw
\* either, returns, and every request that was queued before it has been sent
\* once or is queued once after it.
C32_RebindTerminates ==
  [][(lastOp'.op = "bind" /\ lastOp'.thrown = "none" /\ lastOp'.caught = None) =>
       /\ ~hung'
       /\ Len(sent') + QueuedRequests(Cur', services') = QueuedRequests(Cur, services)
    ]_vars

\* --------------------------------------------------------------------- C33
\* The lines of the requests queued, in the order next() was given them,
\* numbered from n on.
QueuingOrderLines(n) ==
  [i \in 1..Len(queuedOrder) |->
     RequestLine(n + i - 1, queuedOrder[i].service, queuedOrder[i].request)]

\* The lines of the queues of the services names, one service after the
\* other, numbered from n on.
RECURSIVE RegistrationOrderLines(_, _)
RegistrationOrderLines(names, n) ==
  IF names = <<>> THEN <<>>
  ELSE QueueLines(n, Head(names), serviceRequestsQueue[Head(names)])
         \o RegistrationOrderLines(Tail(names), n + Len(serviceRequestsQueue[Head(names)]))

IsAnswerFor(op, uid) ==
  \/ op.op = "done" /\ op.arg = <<NumberText(uid)>>
  \/ /\ op.op = "fromServer"
     /\ Len(Lexemes(op.arg)) >= 3
     /\ Lexemes(op.arg)[1] = "SERVICE"
     /\ Lexemes(op.arg)[2] = "RESPONSE"
     /\ Lexemes(op.arg)[3] \in NumericLexemes
     /\ NumberOf(<<Lexemes(op.arg)[3]>>) = uid

\* The step sent requests on a transport that threw.
IsSendFailure(op) ==
  /\ op.op \in {"sendRequest", "bind"}
  /\ op.caught = Some(SendFailure)

\* C34: the identifiers present in the registry are exactly 0..k-1 after k
\* calls of generateServiceRequestUid(); an identifier that is present stays
\* present, a responded one stays responded, an awaiting one becomes
\* responded only by the answer that names it, and an identifier is responded
\* from its issuance on only when the send that issued it failed.
C34_RegistryInvariants ==
  [][/\ DOMAIN awaitingRequests' = 0..(issueCalls' - 1)
     /\ \A uid \in DOMAIN awaitingRequests :
          /\ uid \in DOMAIN awaitingRequests'
          /\ awaitingRequests[uid] => awaitingRequests'[uid]
          /\ (~awaitingRequests[uid] /\ awaitingRequests'[uid]) => IsAnswerFor(lastOp', uid)
     /\ \A uid \in DOMAIN awaitingRequests' \ DOMAIN awaitingRequests :
          awaitingRequests'[uid] => IsSendFailure(lastOp')
    ]_vars

\* A request was sent on a transport that threw while an earlier identifier
\* awaits: identifier 0 awaits, identifier 1 was released at its issuance.
C34_Witness ==
  /\ lastOp.op = "sendRequest"
  /\ lastOp.caught = Some(SendFailure)
  /\ DOMAIN awaitingRequests = {0, 1}
  /\ ~awaitingRequests[0]
  /\ awaitingRequests[1]

\* --------------------------------------------------------------------- C35
\* 'SERVICE RESPONSE <id> <OK|KO> ...' naming an identifier that was issued
\* before the current session became Registered.
IsResponseForEarlierSession(line) ==
  /\ Len(Lexemes(line)) >= 4
  /\ Lexemes(line)[1] = "SERVICE"
  /\ Lexemes(line)[2] = "RESPONSE"
  /\ Lexemes(line)[3] \in NumericLexemes
  /\ Lexemes(line)[4] \in {"OK", "KO"}
  /\ NumberOf(<<Lexemes(line)[3]>>) < issuedBefore

\* C35: the first identifier issued after a session became Registered is 0,
\* and the request line that carries it says so; received by the bound
\* engine, a RESPONSE naming an identifier issued before the session became
\* Registered is fatal.
C35_CorrelationScopedToSession ==
  [][/\ (lastOp'.op \in {"sendRequest", "bind"} /\ issuedOut' # <<>>
           /\ issueCalls = issuedBefore) =>
          /\ issuedOut'[1] = 0
          /\ sent' # <<>> => Lexemes(sent'[1])[3] = "0"
     /\ (lastOp'.op = "fromServer" /\ Mode = REGISTERED /\ isBound(Cur)
           /\ IsResponseForEarlierSession(lastOp'.arg)) =>
          /\ serCaught' # None
          /\ sent' = <<LOGOUT>>
    ]_vars

\* --------------------------------------------------------------------- C36
\* C36: after the transport threw on the send of a request and the failure
\* was given to the observers of the channel, an event fired on the channel
\* is given once to each observer the channel had before the failure, and a
\* request sent on the channel goes out as one line carrying the next
\* identifier.
C36_UsableAfterSendFailure ==
  [][(lastOp'.op = "sendRequest" /\ lastOp'.caught = Some(SendFailure) /\ ~CommandsStopped(Cur)) =>
       /\ fire(Cur', RequestService(lastOp'), <<"a">>).eventsOut =
            DeliveredTo(RequestService(lastOp'), <<"a">>)
       /\ ServiceSubjectNext(Cur', RequestService(lastOp'), <<"hi">>, FALSE).sent =
            <<RequestLine(uidProvider', RequestService(lastOp'), <<"hi">>)>>
    ]_vars

\* --------------------------------------------------------------------- C37
\* C37: while the mode is Registered no two entries of the roster have the
\* same id.
C37_RosterIdsUnique ==
  Mode = REGISTERED =>
    \A i, j \in 1..Len(lastActorsValue) :
      i # j => lastActorsValue[i].uid # lastActorsValue[j].uid

\* --------------------------------------------------------------------- C38
\* C38: while the mode is Registered the SER stream and the roster stream of
\* the session exist and are open, neither completed nor errored.
C38_RegisteredStreamsOpen ==
  Mode = REGISTERED =>
    /\ serProtocol.st = "open"
    /\ actors.st = "open"

\* --------------------------------------------------------------------- C39
\* C39: getSelf() that returns gives the identity the last register() of the
\* current session was given; while Registered, a LOGGED_IN <uid> <name>
\* line is kept out of the roster exactly when uid is the uid of that
\* identity, whatever an earlier session recorded.
C39_SelfIsOfCurrentSession ==
  [][/\ (lastOp'.op = "getSelf" /\ lastOp'.thrown = "none") =>
          returned' = Some(sessionSelf)
     /\ (lastOp'.op = "fromServer" /\ Mode = REGISTERED /\ IsLoggedIn(lastOp'.arg)) =>
          IF sessionSelf # None /\ sessionSelf[1].uid = LoggedInActor(lastOp'.arg).uid
          THEN lastActorsValue' = lastActorsValue
          ELSE lastActorsValue' = Append(lastActorsValue, LoggedInActor(lastOp'.arg))
    ]_vars

\* --------------------------------------------------------------------- C40
\* C40: an operation that changes the mode emits one value on the state
\* stream, the mode it leaves, and an operation that leaves the mode as it
\* was emits none; each emitted value is then the mode at its emission and
\* differs from the value emitted before it.
C40_OneNotificationPerModeChange ==
  [][notified' = IF Mode' # Mode THEN <<Mode'>> ELSE <<>>]_vars

====
